---- MODULE Spec2Model ----
(***************************************************************************)
(* Session orchestration of the voice chat client (src/script.js): the    *)
(* participant registry, the peer-connection registry with the per-link   *)
(* flags kept on each RTCPeerConnection, the signaling handler and the     *)
(* reconnection procedures.                                                *)
(*                                                                         *)
(* Every handler runs on one event loop.  A handler runs atomically up to  *)
(* its next await of a transport operation or of a timed delay.  A task    *)
(* suspended on a transport operation sits in the operations queue of the  *)
(* link it operates on (the platform settles the operations of one         *)
(* RTCPeerConnection in the order they were issued); a task suspended on a *)
(* delay sits in timers.  An `await` of createPeerConnection itself does   *)
(* not let another handler run: the function has no await inside, so its   *)
(* promise is settled in the same turn.                                    *)
(***************************************************************************)
EXTENDS Integers, Sequences, FiniteSets, TLC

\* The local gamertag (VoiceChatApp.currentGamertag) and the remote ones.
Self == "Alex"
Remotes == {"Steve", "Herobrine"}
Gamertags == {Self} \cup Remotes
NoTag == "-"

\* A gamertag that differs from the local one in letter case only, and the
\* gamertags in trim().toLowerCase() form, in which world data is looked up.
Variant == "alex"
Names == Gamertags \cup {Variant}
ToLowerCase(name) ==
  CASE name \in {"Alex", "alex"} -> "alex"
    [] name = "Steve" -> "steve"
    [] name = "Herobrine" -> "herobrine"

\* Bound of the model: the handlers suspended at one time, on a transport
\* operation or on a delay.
MaxTasks == 2

\* Program constants.
MaxReconnectAttempts == 3
ReconnectDelay == 1000
SettleDelay == 500
SpacingDelay == 300

VARIABLES
  ws,               \* VoiceChatApp.ws: "null", "connecting" or "open"
  participants,     \* ParticipantsManager.participants: gamertag -> Participant
  pendingNodes,     \* ParticipantsManager.pendingNodes: gamertag -> pending audio element
  peerConnections,  \* WebRTCManager.peerConnections: gamertag -> RTCPeerConnection
  peerOrder,        \* the insertion order of the keys of peerConnections (a JS Map)
  timers,           \* the tasks suspended on a setTimeout delay, in the order they started
  watch,            \* the events under observation
  ev,               \* the event or message the last step delivered, if under observation
  out,              \* the signaling messages the last step sent, if under observation
  taken,            \* the gamertags whose pending audio element the last step gave to a
                    \* new participant, if under observation
  released,         \* the audio elements the last step released, each with the gamertag
                    \* of its participant, if under observation
  heartbeatInterval,\* VoiceChatApp.heartbeatInterval: "null" or "set"
  audioEffects,     \* the AudioEffectsManager
  minecraft,        \* the MinecraftIntegration, with the maxDistance of its DistanceCalculator
  pttEnabled,       \* PushToTalkManager.enabled
  feed,             \* the minecraft-update messages the server of the session sends
  isKeyPressed,     \* PushToTalkManager.isKeyPressed
  senders,          \* gamertag of a link -> the stream whose track its audio sender carries
  trackEnabled,     \* stream -> the enabled flag of its audio track
  replaced,         \* the sockets connectToRoom replaced whose close event is still due
  left              \* the gamertags whose leave was handled and who have sent no join
                    \* or offer since, if under observation

vars == <<ws, participants, pendingNodes, peerConnections, peerOrder, timers, watch, ev, out, taken,
          released, heartbeatInterval, audioEffects, minecraft, pttEnabled, feed,
          isKeyPressed, senders, trackEnabled, replaced, left>>

IceConnectionStates == {"checking", "connected", "completed", "disconnected", "failed"}
SignalingStates == {"stable", "have-local-offer", "have-remote-offer"}
ConnectionStates == {"new", "connecting", "connected", "disconnected", "failed"}

Ev(type, g, arg, list) == [type |-> type, g |-> g, arg |-> arg, list |-> list]
NoEvent == Ev("-", NoTag, NoTag, {})
Msg(type, to) == [type |-> type, to |-> to]
Task(kind, op, rest) == [kind |-> kind, op |-> op, rest |-> rest]
Timer(kind, delay, g, attempts, rest) ==
  [kind |-> kind, delay |-> delay, g |-> g, attempts |-> attempts, rest |-> rest]

Range(s) == {s[i] : i \in DOMAIN s}
Without(s, g) == SelectSeq(s, LAMBDA h : h # g)

----------------------------------------------------------------------------
(* Participant and ParticipantsManager *)

\* Volumes and volume multipliers are fractions in lowest terms; the code's
\* arithmetic on them is exact on the values of this model.
RECURSIVE GCD(_, _)
GCD(a, b) == IF b = 0 THEN a ELSE GCD(b, a % b)

Frac(n, d) == LET c == GCD(n, d) IN [n |-> n \div c, d |-> d \div c]
Zero == Frac(0, 1)
One == Frac(1, 1)
Times(p, q) == Frac(p.n * q.n, p.d * q.d)
Less(p, q) == p.n * q.d < q.n * p.d

\* The Participant constructor: distance 0, volume 1, customVolume 1.
Participant(isSelf, audioElement) ==
  [isSelf |-> isSelf, audioElement |-> audioElement,
   distance |-> 0, volume |-> One, customVolume |-> One]

\* The audio elements.  document.createElement("audio") makes an element
\* distinct from every element in existence; elements are only ever compared
\* within one gamertag, so the new element of a gamertag is named by the
\* first name that neither its participant nor its pending entry holds.
AudioElements == <<"audio1", "audio2", "audio3">>

NoNodes == [h \in {} |-> "null"]

HeldBy(P, g) ==
  (IF g \in DOMAIN P.participants THEN {P.participants[g].audioElement} ELSE {})
  \cup (IF g \in DOMAIN P.pendingNodes THEN {P.pendingNodes[g]} ELSE {})

CreateAudioElement(P, g) ==
  AudioElements[CHOOSE i \in DOMAIN AudioElements :
                  /\ AudioElements[i] \notin HeldBy(P, g)
                  /\ \A j \in 1..(i - 1) : AudioElements[j] \in HeldBy(P, g)]

\* add that deletes the pending audio node without handing it to the participant.
AddDropsPending(P, g, isSelf) ==
  IF g \in DOMAIN P.participants THEN P
  ELSE [participants |->
          [h \in DOMAIN P.participants \cup {g} |->
             IF h = g THEN Participant(isSelf, "null") ELSE P.participants[h]],
        pendingNodes |-> [h \in DOMAIN P.pendingNodes \ {g} |-> P.pendingNodes[h]],
        released |-> P.released]

\* add that hands the pending audio node over and keeps its entry.
AddKeepsPending(P, g, isSelf) ==
  IF g \in DOMAIN P.participants THEN P
  ELSE [participants |->
          [h \in DOMAIN P.participants \cup {g} |->
             IF h = g
               THEN Participant(isSelf, IF g \in DOMAIN P.pendingNodes
                                          THEN P.pendingNodes[g] ELSE "null")
               ELSE P.participants[h]],
        pendingNodes |-> P.pendingNodes,
        released |-> P.released]

\* add without the test for a known gamertag.
AddAnew(P, g, isSelf) ==
  [participants |->
     [h \in DOMAIN P.participants \cup {g} |->
        IF h = g
          THEN Participant(isSelf, IF g \in DOMAIN P.pendingNodes
                                     THEN P.pendingNodes[g] ELSE "null")
          ELSE P.participants[h]],
   pendingNodes |-> [h \in DOMAIN P.pendingNodes \ {g} |-> P.pendingNodes[h]],
   released |-> P.released]

\* ParticipantsManager.add: a no-op on a known gamertag; a new Participant
\* takes the pending audio node of its gamertag, which is then deleted.
Add(P, g, isSelf) ==
  IF g \in DOMAIN P.participants THEN P
  ELSE [participants |->
          [h \in DOMAIN P.participants \cup {g} |->
             IF h = g
               THEN Participant(isSelf, IF g \in DOMAIN P.pendingNodes
                                          THEN P.pendingNodes[g] ELSE "null")
               ELSE P.participants[h]],
        pendingNodes |-> [h \in DOMAIN P.pendingNodes \ {g} |-> P.pendingNodes[h]],
        released |-> P.released]

\* Participant.cleanup of the participant of g: its audio element, if it has
\* one, is paused and removed from the document.
Cleanup(P, g) ==
  IF P.participants[g].audioElement # "null"
    THEN {<<g, P.participants[g].audioElement>>}
    ELSE {}

\* remove that deletes the entry and leaves the audio element playing.
RemoveWithoutCleanup(P, g) ==
  IF g \in DOMAIN P.participants
    THEN [participants |-> [h \in DOMAIN P.participants \ {g} |-> P.participants[h]],
          pendingNodes |-> P.pendingNodes,
          released |-> P.released]
    ELSE P

\* ParticipantsManager.remove
Remove(P, g) ==
  IF g \in DOMAIN P.participants
    THEN [participants |-> [h \in DOMAIN P.participants \ {g} |-> P.participants[h]],
          pendingNodes |-> P.pendingNodes,
          released |-> P.released \cup Cleanup(P, g)]
    ELSE P

NoParticipants == [h \in {} |-> Participant(FALSE, "null")]

\* ParticipantsManager.clear
Clear(P) ==
  [participants |-> NoParticipants,
   pendingNodes |-> NoNodes,
   released |-> P.released \cup UNION {Cleanup(P, g) : g \in DOMAIN P.participants}]

\* The ParticipantsManager as a step finds it; `released` collects the audio
\* elements the step releases.
PM == [participants |-> participants, pendingNodes |-> pendingNodes, released |-> {}]

\* Participant.setAudioNodes on the participant of g
SetAudioNodes(P, g, audioElement) == [P EXCEPT !.participants[g].audioElement = audioElement]

\* Participant.updateVolume on the participant of g: the volume is the new
\* volume times the custom multiplier.
UpdateVolume(P, g, newVolume) ==
  [P EXCEPT !.participants[g].volume = Times(newVolume, P.participants[g].customVolume)]

\* No handler reads the volume, the distance or the custom multiplier of a
\* participant: they go to the display and to the audio element only.  They
\* are kept in the sessions of a server that sends minecraft-update messages
\* and left as constructed in the others.
Metered == feed # {}

\* Participant.updateDistance on the participant of g
UpdateDistance(P, g, distance) == [P EXCEPT !.participants[g].distance = distance]

\* Participant.setCustomVolume on the participant of g
SetCustomVolume(P, g, volume) == [P EXCEPT !.participants[g].customVolume = volume]

\* addPendingNode that keeps the entry the key already has.
AddPendingNodeKeepsFirst(P, g, audioElement) ==
  IF g \in DOMAIN P.pendingNodes THEN P
  ELSE [P EXCEPT !.pendingNodes =
          [h \in DOMAIN P.pendingNodes \cup {g} |->
             IF h = g THEN audioElement ELSE P.pendingNodes[h]]]

\* ParticipantsManager.addPendingNode: Map.set, which replaces an entry of the key.
AddPendingNode(P, g, audioElement) ==
  [P EXCEPT !.pendingNodes =
     [h \in DOMAIN P.pendingNodes \cup {g} |->
        IF h = g THEN audioElement ELSE P.pendingNodes[h]]]

----------------------------------------------------------------------------
(* WebRTCManager: the registry of links *)

\* The RTCPeerConnection createPeerConnection builds.  `ops` holds the tasks
\* suspended on an operation of this connection, in the order the operations
\* were issued.
NewPc ==
  [signalingState |-> "stable", isInitialConnection |-> TRUE, reconnectAttempts |-> 0,
   connectionState |-> "new", ops |-> << >>]

Reg == [pcs |-> peerConnections, order |-> peerOrder]

\* createPeerConnection without the test for an existing link.
CreatePeerConnectionAnew(R, g) ==
  [pcs |-> [h \in DOMAIN R.pcs \cup {g} |-> IF h = g THEN NewPc ELSE R.pcs[h]],
   order |-> Append(R.order, g)]

\* WebRTCManager.createPeerConnection: the existing link, or a new one.
CreatePeerConnection(R, g) ==
  IF g \in DOMAIN R.pcs THEN R
  ELSE [pcs |-> [h \in DOMAIN R.pcs \cup {g} |-> IF h = g THEN NewPc ELSE R.pcs[h]],
        order |-> Append(R.order, g)]

\* WebRTCManager.closePeerConnection: pc.close() and delete.  The operations
\* outstanding on a closed RTCPeerConnection never settle, so the tasks that
\* await them never resume.
ClosePeerConnection(R, g) ==
  IF g \in DOMAIN R.pcs
    THEN [pcs |-> [h \in DOMAIN R.pcs \ {g} |-> R.pcs[h]], order |-> Without(R.order, g)]
    ELSE R

\* closeAllConnections that leaves the links registered.
CloseAllConnectionsKeeps(R) == R

\* WebRTCManager.closeAllConnections
CloseAllConnections(R) == [pcs |-> [h \in {} |-> NewPc], order |-> << >>]

\* The call of a transport operation on the link of g: the task is suspended on it.
Issue(R, g, task) == [R EXCEPT !.pcs[g].ops = Append(@, task)]

RECURSIVE Suspended(_, _)
Suspended(R, gs) ==
  IF gs = {} THEN 0
  ELSE LET g == CHOOSE x \in gs : TRUE
       IN  Len(R.pcs[g].ops) + Suspended(R, gs \ {g})

\* The number of handlers suspended in registry R and timers T.
InFlight(R, T) == Suspended(R, DOMAIN R.pcs) + Len(T)

----------------------------------------------------------------------------
(* AudioEffectsManager *)

\* The minimum interval between effect changes, in AudioEffectsManager.applyEffect
\* and in MinecraftIntegration.effectThrottleMs; time is counted in quanta.
EffectThrottleMs == 1000
Quantum == 500

Effects == {"none", "underwater", "cave", "mountain", "buried"}

\* The effects whose branch of applyEffect awaits the impulse response of a
\* new reverb before the output stream is set.
AwaitsReverb(effect) == effect \in {"cave", "mountain", "buried"}

\* The outgoing audio (the track each sender carries, the enabled flag of the
\* tracks, the track replacements under way) is written by the handlers and
\* read by none of them.  It is kept in the sessions that have it under
\* observation and left as constructed in the others.
SenderTracks == Ev("senders", NoTag, NoTag, {})
Wired == SenderTracks \in watch

\* The output streams, each with one audio track.  createMediaStreamDestination
\* makes a stream distinct from every stream in existence; the new one is
\* named by the first name that is neither the stream in use nor on a sender
\* nor in a replacement under way.
Streams == <<"stream1", "stream2", "stream3", "stream4", "stream5", "stream6", "stream7">>
StreamsInUse(FX, S) ==
  {FX.processedStream} \cup {S[g] : g \in DOMAIN S}
  \cup {FX.replacing[i].track : i \in DOMAIN FX.replacing}
CreateStream(FX) ==
  Streams[CHOOSE i \in DOMAIN Streams :
            /\ Streams[i] \notin StreamsInUse(FX, senders)
            /\ \A j \in 1..(i - 1) : Streams[j] \in StreamsInUse(FX, senders)]

\* The state after construction.  `sinceChange` is Date.now() - lastEffectChange
\* cut off at EffectThrottleMs: lastEffectChange starts at 0, an age beyond
\* every interval.  `building` holds the applyEffect tasks suspended on a
\* reverb, each with its effect and whether it was given the links;
\* `replacing` holds the applyEffect tasks suspended on Promise.all of their
\* track replacements, each with the new track, the links whose replaceTrack
\* has not settled, and whether one of them was closed meanwhile (`stuck`:
\* the operations of a closed RTCPeerConnection never settle).
NewAudioEffects ==
  [currentEffect |-> "none", processedStream |-> "null",
   sinceChange |-> EffectThrottleMs, building |-> << >>, replacing |-> << >>]

Replacing(track, pending) == [track |-> track, pending |-> pending, stuck |-> FALSE]

\* The track replacement of applyEffect that stops at the first link.
ReplaceOnFirstLink(FX, track, R) ==
  IF Wired /\ DOMAIN R.pcs # {}
    THEN [FX EXCEPT !.replacing = Append(@, Replacing(track, {R.order[1]}))]
    ELSE FX

\* The track replacement of applyEffect: replaceTrack is called on the audio
\* sender of every registered link, and the task waits for all of them.
ReplaceOnLinks(FX, track, R) ==
  IF Wired /\ DOMAIN R.pcs # {}
    THEN [FX EXCEPT !.replacing = Append(@, Replacing(track, DOMAIN R.pcs))]
    ELSE FX

\* The end of applyEffect: the new output stream and the effect are set and
\* the track of the audio sender of every registered link is to be replaced.
FinishEffect(FX, effect, withLinks, R) ==
  LET F1 == [FX EXCEPT !.processedStream = CreateStream(FX), !.currentEffect = effect]
  IN  [fx |-> IF withLinks THEN ReplaceOnLinks(F1, F1.processedStream, R) ELSE F1,
       out |-> IF withLinks THEN {Msg("replaceTrack", g) : g \in DOMAIN R.pcs} ELSE {}]

\* applyEffect without the test of the current effect.
ApplyEffectAgain(FX, effect, withLinks, R) ==
  IF FX.processedStream # "null" /\ FX.sinceChange < EffectThrottleMs
    THEN [fx |-> FX, out |-> {}]
  ELSE IF AwaitsReverb(effect)
    THEN [fx |-> [FX EXCEPT !.sinceChange = 0,
                            !.building = Append(@, [effect |-> effect, withLinks |-> withLinks])],
          out |-> {}]
  ELSE FinishEffect([FX EXCEPT !.sinceChange = 0], effect, withLinks, R)

\* applyEffect without the minimum interval.
ApplyEffectUnthrottled(FX, effect, withLinks, R) ==
  IF FX.currentEffect = effect /\ FX.processedStream # "null"
    THEN [fx |-> FX, out |-> {}]
  ELSE IF AwaitsReverb(effect)
    THEN [fx |-> [FX EXCEPT !.sinceChange = 0,
                            !.building = Append(@, [effect |-> effect, withLinks |-> withLinks])],
          out |-> {}]
  ELSE FinishEffect([FX EXCEPT !.sinceChange = 0], effect, withLinks, R)

\* AudioEffectsManager.applyEffect up to its first await; the input node
\* exists, for the microphone is started before the socket is created.
ApplyEffect(FX, effect, withLinks, R) ==
  IF FX.currentEffect = effect /\ FX.processedStream # "null"
    THEN [fx |-> FX, out |-> {}]
  ELSE IF FX.processedStream # "null" /\ FX.sinceChange < EffectThrottleMs
    THEN [fx |-> FX, out |-> {}]
  ELSE IF AwaitsReverb(effect)
    THEN [fx |-> [FX EXCEPT !.sinceChange = 0,
                            !.building = Append(@, [effect |-> effect, withLinks |-> withLinks])],
          out |-> {}]
  ELSE FinishEffect([FX EXCEPT !.sinceChange = 0], effect, withLinks, R)

----------------------------------------------------------------------------
(* MinecraftIntegration *)

DefaultMaxDistance == 20

\* The state after construction.  `minecraftData` is empty for null and holds
\* the last snapshot otherwise; `sinceEffect` is Date.now() - lastEffectChange
\* cut off at EffectThrottleMs.
NewMinecraft ==
  [minecraftData |-> << >>, isPlayerInGame |-> FALSE,
   remoteMuted |-> FALSE, remoteDeafened |-> FALSE,
   sinceEffect |-> EffectThrottleMs, maxDistance |-> DefaultMaxDistance]

\* A player of a snapshot: `env` is the effect its flags select (isUnderWater,
\* isInCave, isInMountain, isBuried, in this order of precedence) and
\* `customVolumes` maps gamertags to multipliers.
Player(name, location, isMuted, isDeafened, env) ==
  [name |-> name, location |-> location, isMuted |-> isMuted, isDeafened |-> isDeafened,
   env |-> env, customVolumes |-> [h \in {} |-> One]]

\* The data of a minecraft-update: the players list and config.maxDistance,
\* 0 when the snapshot has none.
Snapshot(players, maxDistance) == [players |-> players, maxDistance |-> maxDistance]

\* A minecraft-update message; muteStates is empty when the message has none.
MinecraftUpdate(data, muteStates) ==
  [type |-> "minecraft-update", g |-> NoTag, arg |-> NoTag, list |-> {},
   data |-> data, muteStates |-> muteStates]

MuteState(gamertag, isMuted, isDeafened) ==
  [gamertag |-> gamertag, isMuted |-> isMuted, isDeafened |-> isDeafened]

\* Array.find on the players list with the names compared in lower case: the
\* index of the first match, 0 for none.
FindPlayer(players, name) ==
  LET I == {i \in DOMAIN players : ToLowerCase(players[i].name) = ToLowerCase(name)}
  IN  IF I = {} THEN 0 ELSE CHOOSE i \in I : \A j \in I : i <= j

\* Math.sqrt on the sums of squares of this model, which are squares.
Sqrt(n) == CHOOSE r \in 0..n : r * r = n

\* DistanceCalculator.calculate
Calculate(pos1, pos2) ==
  LET dx == pos1[1] - pos2[1]
      dy == pos1[2] - pos2[2]
      dz == pos1[3] - pos2[3]
  IN  Sqrt(dx * dx + dy * dy + dz * dz)

\* 1 - q for a fraction q of at most 1
OneMinus(q) == Frac(q.d - q.n, q.d)

\* volumeFromDistance without the cut at maxDistance.
VolumeFromDistanceUncut(distance, maxDistance) ==
  LET x == OneMinus(Frac(distance, maxDistance)) IN Times(x, x)

\* volumeFromDistance with a linear falloff.
VolumeFromDistanceLinear(distance, maxDistance) ==
  IF distance > maxDistance THEN Zero
  ELSE OneMinus(Frac(distance, maxDistance))

\* DistanceCalculator.volumeFromDistance
VolumeFromDistance(distance, maxDistance) ==
  IF distance > maxDistance THEN Zero
  ELSE LET x == OneMinus(Frac(distance, maxDistance)) IN Times(x, x)

\* The body of the forEach of updateParticipantVolumes without the test of
\* the other player's isMuted.
UpdateParticipantVolumeUnmuted(P, g, MC, myPlayer, players) ==
  IF P.participants[g].isSelf THEN P
  ELSE LET i == FindPlayer(players, g)
       IN  IF i = 0 THEN UpdateVolume(P, g, Zero)
           ELSE IF MC.remoteDeafened THEN UpdateVolume(P, g, Zero)
           ELSE LET distance == Calculate(myPlayer.location, players[i].location)
                    volume == VolumeFromDistance(distance, MC.maxDistance)
                IN  UpdateVolume(UpdateDistance(P, g, distance), g, volume)

\* The body of the forEach of updateParticipantVolumes for participant g.
UpdateParticipantVolume(P, g, MC, myPlayer, players) ==
  IF P.participants[g].isSelf THEN P
  ELSE LET i == FindPlayer(players, g)
       IN  IF i = 0 THEN UpdateVolume(P, g, Zero)
           ELSE IF players[i].isMuted
             THEN UpdateVolume(UpdateDistance(P, g, 0), g, Zero)
           ELSE IF MC.remoteDeafened THEN UpdateVolume(P, g, Zero)
           ELSE LET distance == Calculate(myPlayer.location, players[i].location)
                    volume == VolumeFromDistance(distance, MC.maxDistance)
                IN  UpdateVolume(UpdateDistance(P, g, distance), g, volume)

\* MinecraftIntegration.updateParticipantVolumes over the participants gs
RECURSIVE UpdateParticipantVolumes(_, _, _, _, _)
UpdateParticipantVolumes(P, gs, MC, myPlayer, players) ==
  IF gs = {} THEN P
  ELSE LET g == CHOOSE x \in gs : TRUE
       IN  UpdateParticipantVolumes(UpdateParticipantVolume(P, g, MC, myPlayer, players),
                                    gs \ {g}, MC, myPlayer, players)

\* MinecraftIntegration.applyCustomVolumes over the participants gs
RECURSIVE ApplyCustomVolumes(_, _, _)
ApplyCustomVolumes(P, gs, customVolumes) ==
  IF gs = {} THEN P
  ELSE LET g == CHOOSE x \in gs : TRUE
           Q == IF ~P.participants[g].isSelf /\ g \in DOMAIN customVolumes
                  THEN SetCustomVolume(P, g, customVolumes[g])
                  ELSE P
       IN  ApplyCustomVolumes(Q, gs \ {g}, customVolumes)

\* MinecraftIntegration.handlePlayerNotInGame over the participants gs
RECURSIVE SilenceAll(_, _)
SilenceAll(P, gs) ==
  IF gs = {} THEN P
  ELSE LET g == CHOOSE x \in gs : TRUE
       IN  SilenceAll(IF P.participants[g].isSelf THEN P ELSE UpdateVolume(P, g, Zero),
                      gs \ {g})

\* MinecraftIntegration.applyEnvironmentalEffects: within the minimum interval
\* nothing is done; past it the effect of the player's flags is applied when
\* it is not the current one.
ApplyEnvironmentalEffects(MC, FX, myPlayer, R) ==
  IF MC.sinceEffect < EffectThrottleMs
    THEN [mc |-> MC, fx |-> FX, out |-> {}]
    ELSE LET X == IF myPlayer.env # FX.currentEffect
                    THEN ApplyEffect(FX, myPlayer.env, TRUE, R)
                    ELSE [fx |-> FX, out |-> {}]
         IN  [mc |-> [MC EXCEPT !.sinceEffect = 0], fx |-> X.fx, out |-> X.out]

\* MinecraftIntegration.processUpdate on the stored snapshot.
ProcessUpdate(MC, FX, P, R) ==
  IF MC.minecraftData = << >>
    THEN [mc |-> MC, fx |-> FX, pm |-> P, out |-> {}]
    ELSE LET data == MC.minecraftData[1]
             M0 == IF data.maxDistance # 0
                     THEN [MC EXCEPT !.maxDistance = data.maxDistance]
                     ELSE MC
             i == FindPlayer(data.players, Self)
         IN  IF i = 0
               THEN [mc |-> [M0 EXCEPT !.isPlayerInGame = FALSE], fx |-> FX,
                     pm |-> SilenceAll(P, DOMAIN P.participants), out |-> {}]
               ELSE LET myPlayer == data.players[i]
                        M1 == [M0 EXCEPT !.isPlayerInGame = TRUE,
                                         !.remoteMuted = myPlayer.isMuted,
                                         !.remoteDeafened = myPlayer.isDeafened]
                        P1 == ApplyCustomVolumes(P, DOMAIN P.participants,
                                                 myPlayer.customVolumes)
                        E == ApplyEnvironmentalEffects(M1, FX, myPlayer, R)
                    IN  [mc |-> E.mc, fx |-> E.fx,
                         pm |-> UpdateParticipantVolumes(P1, DOMAIN P1.participants, E.mc,
                                                         myPlayer, data.players),
                         out |-> E.out]

\* The muteStates part of onWebSocketMessage: the entry of the local gamertag,
\* found by exact comparison, sets remoteMuted and remoteDeafened.  While
\* push-to-talk is off the handler then reads this.mic, a field that is never
\* assigned, and ends on the TypeError: after the mute change nothing more of
\* the entry is taken.
ApplyMuteStates(MC, muteStates, ptt) ==
  LET I == {i \in DOMAIN muteStates : muteStates[i].gamertag = Self}
  IN  IF I = {} THEN MC
      ELSE LET myState == muteStates[CHOOSE i \in I : \A j \in I : i <= j]
               muteChanged == myState.isMuted # MC.remoteMuted
               M1 == IF muteChanged THEN [MC EXCEPT !.remoteMuted = myState.isMuted] ELSE MC
           IN  IF muteChanged /\ ~ptt THEN M1
               ELSE IF myState.isDeafened # M1.remoteDeafened
                 THEN [M1 EXCEPT !.remoteDeafened = myState.isDeafened,
                                 !.remoteMuted = IF myState.isDeafened THEN TRUE ELSE @]
                 ELSE M1

\* The parts of the application a step finds besides the registries.
App == [heartbeatInterval |-> heartbeatInterval, audioEffects |-> audioEffects,
        minecraft |-> minecraft, pttEnabled |-> pttEnabled, isKeyPressed |-> isKeyPressed,
        senders |-> senders, trackEnabled |-> trackEnabled, replaced |-> replaced]

\* this.ws.send / the guarded sends of WebRTCManager: a message leaves only
\* through an open socket.
Send(m) == IF ws = "open" THEN {m} ELSE {}

----------------------------------------------------------------------------
(* The state after construction of VoiceChatApp *)

NoSenders == [h \in {} |-> "null"]

\* The departures are under observation: `left` is kept.
Departures == Ev("departures", NoTag, NoTag, {})

InitWith(events, updates) ==
  /\ watch = events
  /\ feed = updates
  /\ ws = "null"
  /\ participants = NoParticipants
  /\ pendingNodes = NoNodes
  /\ peerConnections = [h \in {} |-> NewPc]
  /\ peerOrder = << >>
  /\ timers = << >>
  /\ ev = NoEvent
  /\ out = {}
  /\ taken = {}
  /\ released = {}
  /\ heartbeatInterval = "null"
  /\ audioEffects = NewAudioEffects
  /\ minecraft = NewMinecraft
  /\ pttEnabled = FALSE
  /\ isKeyPressed = FALSE
  /\ senders = NoSenders
  /\ trackEnabled = [s \in {Streams[i] : i \in DOMAIN Streams} |-> TRUE]
  /\ replaced = 0
  /\ left = {}

\* The session of a server that sends no minecraft-update.
InitWatching(events) == InitWith(events, {})

\* pc.close() on the links that a turn removes from registry R: the track
\* replacements outstanding on them never settle.  A task that waits for
\* such a replacement and for no other is never heard of again.
Unsettled(FX, R) ==
  IF FX.replacing = << >> THEN FX
  ELSE
  [FX EXCEPT !.replacing =
     SelectSeq([i \in DOMAIN @ |->
                  [@[i] EXCEPT !.pending = @ \cap DOMAIN R.pcs,
                               !.stuck = @ \/ ~(FX.replacing[i].pending \subseteq DOMAIN R.pcs)]],
               LAMBDA t : t.pending # {})]

\* The senders of the links of registry R after a turn: pc.addTrack in
\* createPeerConnection gives the sender of a new link the track of the
\* output stream in use; S holds the senders of the links that stay.
SendersOf(R, S) ==
  IF Wired
    THEN [g \in DOMAIN R.pcs |->
            IF g \in DOMAIN peerConnections /\ g \in DOMAIN S
              THEN S[g] ELSE audioEffects.processedStream]
    ELSE NoSenders

\* The end of a turn of the event loop that handled event e and sent the
\* messages o.  An observed event is taken note of before the next turn (see
\* Forget), which does not restrict the turns the event loop can take.
CommitAll(w, P, R, T, A, e, o) ==
  /\ ev = NoEvent
  /\ InFlight(R, T) + Len(A.audioEffects.building) + Len(A.audioEffects.replacing)
       + A.replaced <= MaxTasks
  /\ heartbeatInterval' = A.heartbeatInterval
  /\ audioEffects' = Unsettled(A.audioEffects, R)
  /\ minecraft' = A.minecraft
  /\ pttEnabled' = A.pttEnabled
  /\ isKeyPressed' = A.isKeyPressed
  /\ senders' = SendersOf(R, A.senders)
  /\ trackEnabled' =
       IF Wired
         THEN [s \in DOMAIN trackEnabled |->
                 IF s \in StreamsInUse(Unsettled(A.audioEffects, R), SendersOf(R, A.senders))
                   THEN A.trackEnabled[s] ELSE TRUE]
         ELSE trackEnabled
  /\ replaced' = A.replaced
  /\ left' = IF Departures \notin watch \/ e.type \in {"connect", "exit", "close"} THEN {}
             ELSE IF e.type = "leave" THEN left \cup {e.g}
             ELSE IF e.type \in {"join", "offer"} THEN left \ {e.g}
             ELSE left
  /\ feed' = feed
  /\ watch' = watch
  /\ ws' = w
  /\ participants' = P.participants
  /\ pendingNodes' = P.pendingNodes
  /\ peerConnections' = R.pcs
  /\ peerOrder' = R.order
  /\ timers' = T
  /\ ev' = IF e \in watch THEN e ELSE NoEvent
  /\ out' = IF e \in watch THEN o ELSE {}
  /\ taken' = IF e \in watch
                THEN {g \in DOMAIN pendingNodes \ DOMAIN participants :
                        /\ g \in DOMAIN P.participants
                        /\ g \notin DOMAIN P.pendingNodes}
                ELSE {}
  /\ released' = IF e \in watch THEN P.released ELSE {}

\* The end of a turn that leaves the heartbeat, the effects and the world
\* data as they are.
Commit(w, P, R, T, e, o) == CommitAll(w, P, R, T, App, e, o)

\* The observation of the last turn is dropped; the session is as it was.
Forget ==
  /\ ev # NoEvent
  /\ ev' = NoEvent
  /\ out' = {}
  /\ taken' = {}
  /\ released' = {}
  /\ UNCHANGED <<ws, participants, pendingNodes, peerConnections, peerOrder, timers, watch,
                 heartbeatInterval, audioEffects, minecraft, pttEnabled, feed,
                 isKeyPressed, senders, trackEnabled, replaced, left>>

----------------------------------------------------------------------------
(* WebRTCManager: reconnection *)

\* attemptReconnect with the cap tested one attempt too late.
AttemptReconnectLateCap(R, T, g) ==
  LET attempts == (IF g \in DOMAIN R.pcs THEN R.pcs[g].reconnectAttempts ELSE 0) + 1
  IN  IF attempts > MaxReconnectAttempts + 1
        THEN [reg |-> R, timers |-> T]
        ELSE [reg |-> ClosePeerConnection(R, g),
              timers |-> Append(T, Timer("reconnect", ReconnectDelay, g, attempts, << >>))]

\* WebRTCManager.attemptReconnect up to its delay: the attempt is counted from
\* the registered link; past the cap nothing is done, otherwise the link is
\* closed and the task waits ReconnectDelay.
AttemptReconnect(R, T, g) ==
  LET attempts == (IF g \in DOMAIN R.pcs THEN R.pcs[g].reconnectAttempts ELSE 0) + 1
  IN  IF attempts > MaxReconnectAttempts
        THEN [reg |-> R, timers |-> T]
        ELSE [reg |-> ClosePeerConnection(R, g),
              timers |-> Append(T, Timer("reconnect", ReconnectDelay, g, attempts, << >>))]

\* WebRTCManager.attemptReconnect after its delay: the link is created again,
\* takes the attempt count, and an offer is requested from it.
ResumeReconnect(R, t) ==
  LET R1 == CreatePeerConnection(R, t.g)
      R2 == [R1 EXCEPT !.pcs[t.g].reconnectAttempts = t.attempts]
  IN  Issue(R2, t.g, Task("reconnect", "createOffer", << >>))

\* WebRTCManager.reconnectAllPeers up to its delay: the keys of the registry
\* are taken, every link is closed, and the task waits SettleDelay.
ReconnectAllPeers(R, T) ==
  IF R.order = << >>
    THEN [reg |-> R, timers |-> T]
    ELSE [reg |-> CloseAllConnections(R),
          timers |-> Append(T, Timer("reconnectAll", SettleDelay, NoTag, 0, R.order))]

\* One turn of the loop of reconnectAllPeers over the gamertags left: the link
\* is created and an offer is requested from it; the loop ends on an empty list.
ReconnectNext(R, list) ==
  IF list = << >> THEN R
  ELSE Issue(CreatePeerConnection(R, Head(list)), Head(list),
             Task("reconnectAll", "createOffer", Tail(list)))

----------------------------------------------------------------------------
(* VoiceChatApp: the signaling socket *)

\* The messages of the signaling protocol that the socket delivers when the
\* remote gamertags of the room are `room`.  `g` is the gamertag field of join
\* and leave and the from field of offer, answer and ice-candidate; `arg` is
\* the to field; `list` is the list of participants-list.
Messages(room) ==
  {Ev(type, g, NoTag, {}) : type \in {"join", "leave"}, g \in {Self} \cup room}
  \cup UNION {{Ev(type, g, to, {}) :
                   type \in {"offer", "answer", "ice-candidate"}, to \in Gamertags \ {g}} :
                g \in room}
  \cup {Ev("participants-list", NoTag, NoTag, list) : list \in SUBSET ({Self} \cup room)}
  \cup {Ev("heartbeat", g, NoTag, {}) : g \in room}

\* The join test without the comparison with the local gamertag.
IsAnyJoin(data) == data.type = "join"

\* The test `data.type === "join" && data.gamertag !== this.currentGamertag`.
IsPeerJoin(data) == data.type = "join" /\ data.g # Self

\* The routing test left out.
IsForAnyone(data) == TRUE

\* The test `data.to === this.currentGamertag` of offer, answer and ice-candidate.
IsForMe(data) == data.arg = Self

\* The offer test that accepts in every signaling state.
AcceptsOfferAlways(pc) == TRUE

\* The test of the signaling state under which an inbound offer is answered.
AcceptsOffer(pc) == pc.signalingState \in {"stable", "have-local-offer"}

\* The answer test without the signaling state.
AppliesAnswerToAnyLink(R, g) == g \in DOMAIN R.pcs

\* The test under which an inbound answer is applied.
AppliesAnswer(R, g) == g \in DOMAIN R.pcs /\ R.pcs[g].signalingState = "have-local-offer"

\* handleSignaling, join: the participant is added and, when the registry has
\* no link for it, a link is created and an offer requested.
HandleJoin(data) ==
  LET P == Add(PM, data.g, FALSE)
      R == IF data.g \notin DOMAIN peerConnections
             THEN Issue(CreatePeerConnection(Reg, data.g), data.g,
                        Task("join", "createOffer", << >>))
             ELSE Reg
  IN  Commit(ws, P, R, timers, data, {})

\* handleSignaling, leave: the participant is removed, its link closed, and
\* every remaining link is reconnected.
HandleLeave(data) ==
  LET P == Remove(PM, data.g)
      X == ReconnectAllPeers(ClosePeerConnection(Reg, data.g), timers)
  IN  Commit(ws, P, X.reg, X.timers, data, {})

\* handleSignaling, offer: the sender is added, its link found or created, and
\* in an accepting signaling state the offer is applied as remote description.
HandleOffer(data) ==
  LET P == Add(PM, data.g, FALSE)
      R == CreatePeerConnection(Reg, data.g)
  IN  IF AcceptsOffer(R.pcs[data.g])
        THEN Commit(ws, P, Issue(R, data.g, Task("offer", "setRemoteOffer", << >>)),
                    timers, data, {})
        ELSE Commit(ws, P, R, timers, data, {})

\* handleSignaling, answer
HandleAnswer(data) ==
  IF AppliesAnswer(Reg, data.g)
    THEN Commit(ws, PM, Issue(Reg, data.g, Task("answer", "setRemoteAnswer", << >>)),
                timers, data, {})
    ELSE Commit(ws, PM, Reg, timers, data, {})

\* handleSignaling, ice-candidate: the candidate is handed to the link of its
\* sender, if there is one; nothing of the session state depends on it.
HandleIceCandidate(data) == Commit(ws, PM, Reg, timers, data, {})

RECURSIVE AddAll(_, _)
AddAll(P, list) ==
  IF list = {} THEN P
  ELSE LET gt == CHOOSE x \in list : TRUE
       IN  AddAll(IF gt # Self THEN Add(P, gt, FALSE) ELSE P, list \ {gt})

\* handleSignaling, participants-list: every listed gamertag but the local one is added.
HandleParticipantsList(data) == Commit(ws, AddAll(PM, data.list), Reg, timers, data, {})

\* A message no branch of handleSignaling takes.
Discard(data) == Commit(ws, PM, Reg, timers, data, {})

\* VoiceChatApp.handleSignaling: the chain of tests on the message.
HandleSignaling(data) ==
  IF IsPeerJoin(data) THEN HandleJoin(data)
  ELSE IF data.type = "leave" THEN HandleLeave(data)
  ELSE IF data.type = "offer" /\ IsForMe(data) THEN HandleOffer(data)
  ELSE IF data.type = "answer" /\ IsForMe(data) THEN HandleAnswer(data)
  ELSE IF data.type = "ice-candidate" /\ IsForMe(data) THEN HandleIceCandidate(data)
  ELSE IF data.type = "participants-list" THEN HandleParticipantsList(data)
  ELSE Discard(data)

\* onWebSocketMessage, minecraft-update: updateData stores the snapshot and
\* runs processUpdate, and the muteStates of the message are taken after it.
HandleMinecraftUpdate(data) ==
  LET W == ProcessUpdate([minecraft EXCEPT !.minecraftData = <<data.data>>],
                         audioEffects, PM, Reg)
      MC == ApplyMuteStates(W.mc, data.muteStates, pttEnabled)
  IN  CommitAll(ws, W.pm, Reg, timers,
                [App EXCEPT !.audioEffects = W.fx, !.minecraft = MC], data, W.out)

\* VoiceChatApp.onWebSocketMessage
OnWebSocketMessage(data) ==
  /\ ws = "open"
  /\ IF data.type = "heartbeat" THEN Discard(data)
     ELSE IF data.type = "minecraft-update" THEN HandleMinecraftUpdate(data)
     ELSE HandleSignaling(data)

\* VoiceChatApp.connectToRoom: the links are closed, the microphone is
\* started, which applies the effect "none" with no links, and a socket is
\* created.
ConnectToRoom ==
  /\ ws = "null"
  /\ LET R == CloseAllConnections(Reg)
         X == ApplyEffect(audioEffects, "none", FALSE, R)
     IN  CommitAll("connecting", PM, R, timers, [App EXCEPT !.audioEffects = X.fx],
                   Ev("connect", NoTag, NoTag, {}), X.out)

\* VoiceChatApp.onWebSocketOpen
OnWebSocketOpen ==
  /\ ws = "connecting"
  /\ CommitAll("open", Add(PM, Self, TRUE), Reg, timers,
               [App EXCEPT !.heartbeatInterval = "set"], Ev("open", NoTag, NoTag, {}),
               {Msg("join", NoTag), Msg("request-participants", NoTag), Msg("ptt-status", NoTag)})

\* The callback of the heartbeat interval: a heartbeat leaves through an open
\* socket.
OnHeartbeatInterval ==
  /\ heartbeatInterval = "set"
  /\ Commit(ws, PM, Reg, timers, Ev("interval", NoTag, NoTag, {}), Send(Msg("heartbeat", NoTag)))

\* exitCall that leaves the heartbeat interval running.
StopHeartbeatNever(interval) == interval

\* The end of exitCall: clearInterval on the heartbeat interval.
StopHeartbeat(interval) == "null"

\* VoiceChatApp.exitCall, run by the exit control and by the close and error
\* events of the socket.
ExitCall ==
  /\ ws # "null"
  /\ CommitAll("null", Clear(PM), CloseAllConnections(Reg), timers,
               [App EXCEPT !.heartbeatInterval = StopHeartbeat(@)],
               Ev("exit", NoTag, NoTag, {}), Send(Msg("leave", NoTag)))

----------------------------------------------------------------------------
(* The callbacks createPeerConnection registers on a link *)

\* The initial-negotiation test left out.
SkipsNegotiationNever(pc) == FALSE

\* The test `pc._isInitialConnection` of onnegotiationneeded.
SkipsNegotiation(pc) == pc.isInitialConnection

\* The signaling-state test left out.
MayRenegotiateAlways(pc) == TRUE

\* The test `pc.signalingState !== "stable"` of onnegotiationneeded, negated.
MayRenegotiate(pc) == pc.signalingState = "stable"

\* pc.onnegotiationneeded.  The handler is written for a callback delivered in
\* any signaling state, and so it is delivered in any.
OnNegotiationNeeded(g) ==
  /\ g \in DOMAIN peerConnections
  /\ LET pc == peerConnections[g]
         e == Ev("negotiationneeded", g, NoTag, {})
     IN  IF SkipsNegotiation(pc) \/ ~MayRenegotiate(pc)
           THEN Commit(ws, PM, Reg, timers, e, {})
           ELSE Commit(ws, PM, Issue(Reg, g, Task("negotiationneeded", "createOffer", << >>)),
                       timers, e, {})

\* An offer and its answer have been applied to the connection.
Negotiated(pc) == pc.connectionState # "new"

\* The reconnect test extended to the disconnected state.
StartsReconnectOnDrop(state) == state \in {"failed", "disconnected"}

\* The test `pc.connectionState === "failed"` of onconnectionstatechange.
StartsReconnect(state) == state = "failed"

\* The connected branch without the reset of the attempt count.
EstablishedKeepsCount(pc) == [pc EXCEPT !.isInitialConnection = FALSE]

\* The connected branch of onconnectionstatechange: the flags of the link are reset.
Established(pc) == [pc EXCEPT !.isInitialConnection = FALSE, !.reconnectAttempts = 0]

\* The delay of the forced update that ontrack and the connected branches of
\* the state callbacks start.
UpdateDelay == 500

\* setTimeout of the forced update.  Its callback runs processUpdate when the
\* player is in the game, which takes a snapshot to have arrived: in a
\* session without minecraft-update messages the callback does nothing and
\* the delay is left out.
ScheduleUpdate(T) ==
  IF Metered THEN Append(T, Timer("update", UpdateDelay, NoTag, 0, << >>)) ELSE T

\* pc.onconnectionstatechange, fired when the connection state of the link has
\* become `state`.  The state leaves "new" for "connecting" when an answer is
\* applied (see Answered); the handler does nothing on that event.
OnConnectionStateChange(g, state) ==
  /\ g \in DOMAIN peerConnections
  /\ Negotiated(peerConnections[g])
  /\ state \in ConnectionStates \ {"new", peerConnections[g].connectionState}
  /\ LET R0 == [Reg EXCEPT !.pcs[g].connectionState = state]
         e == Ev("connectionstatechange", g, state, {})
     IN  IF StartsReconnect(state)
           THEN LET X == AttemptReconnect(R0, timers, g)
                IN  Commit(ws, PM, X.reg, X.timers, e, {})
         ELSE IF state = "connected"
           THEN Commit(ws, PM, [R0 EXCEPT !.pcs[g] = Established(@)],
                       ScheduleUpdate(timers), e, {})
         ELSE Commit(ws, PM, R0, timers, e, {})

\* pc.oniceconnectionstatechange, fired when the ICE connection state of the
\* link has become `state`.  The handler acts on failed only, by
\* pc.restartIce(), which marks the connection for negotiation and closes
\* nothing.  A failed ICE transport also makes the connection state failed, and
\* the platform fires connectionstatechange after iceconnectionstatechange in
\* the same task, so onconnectionstatechange runs next, up to the await of
\* attemptReconnect.
OnIceConnectionStateChange(g, state) ==
  /\ g \in DOMAIN peerConnections
  /\ Negotiated(peerConnections[g])
  /\ LET e == Ev("iceconnectionstatechange", g, state, {})
     IN  IF state = "failed" /\ peerConnections[g].connectionState # "failed"
           THEN LET X == AttemptReconnect([Reg EXCEPT !.pcs[g].connectionState = "failed"],
                                          timers, g)
                IN  Commit(ws, PM, X.reg, X.timers, e, {})
         ELSE IF state \in {"connected", "completed"}
           THEN Commit(ws, PM, Reg, ScheduleUpdate(timers), e, {})
         ELSE Commit(ws, PM, Reg, timers, e, {})

\* pc.ontrack, fired for the tracks of an applied remote description: the
\* audio element goes to the participant of the link's gamertag, or to the
\* pending nodes when there is no such participant.
OnTrack(g) ==
  /\ g \in DOMAIN peerConnections
  /\ Negotiated(peerConnections[g])
  /\ LET e == Ev("track", g, NoTag, {})
         audioElement == CreateAudioElement(PM, g)
     IN  IF g \in DOMAIN participants
           THEN LET P == SetAudioNodes(PM, g, audioElement)
                IN  Commit(ws, IF Metered THEN UpdateVolume(P, g, Zero) ELSE P,
                           Reg, ScheduleUpdate(timers), e, {})
           ELSE Commit(ws, AddPendingNode(PM, g, audioElement), Reg, timers, e, {})

HasLocalDescription(pc) ==
  IF Negotiated(pc) THEN TRUE ELSE pc.signalingState = "have-local-offer"

\* pc.onicecandidate: a candidate gathered for a local description is sent.
OnIceCandidate(g) ==
  /\ g \in DOMAIN peerConnections
  /\ HasLocalDescription(peerConnections[g])
  /\ Commit(ws, PM, Reg, timers, Ev("icecandidate", g, NoTag, {}),
            Send(Msg("ice-candidate", g)))

----------------------------------------------------------------------------
(* The transport operations: what the platform does when one settles *)

\* The connection once an answer is applied: the signaling state is stable
\* again, and connectivity checks start on the first answer.
Answered(pc) ==
  [pc EXCEPT !.signalingState = "stable",
             !.connectionState = IF @ = "new" THEN "connecting" ELSE @]

\* pc.createOffer
CreateOffer(pc) == [ok |-> TRUE, pc |-> pc]

\* pc.setLocalDescription(offer)
SetLocalOffer(pc) ==
  IF pc.signalingState \in {"stable", "have-local-offer"}
    THEN [ok |-> TRUE, pc |-> [pc EXCEPT !.signalingState = "have-local-offer"]]
    ELSE [ok |-> FALSE, pc |-> pc]

\* pc.setRemoteDescription(offer): a pending local offer is rolled back.
SetRemoteOffer(pc) == [ok |-> TRUE, pc |-> [pc EXCEPT !.signalingState = "have-remote-offer"]]

\* pc.createAnswer
CreateAnswer(pc) == [ok |-> pc.signalingState = "have-remote-offer", pc |-> pc]

\* pc.setLocalDescription(answer)
SetLocalAnswer(pc) ==
  IF pc.signalingState = "have-remote-offer"
    THEN [ok |-> TRUE, pc |-> Answered(pc)]
    ELSE [ok |-> FALSE, pc |-> pc]

\* pc.setRemoteDescription(answer)
SetRemoteAnswer(pc) ==
  IF pc.signalingState = "have-local-offer"
    THEN [ok |-> TRUE, pc |-> Answered(pc)]
    ELSE [ok |-> FALSE, pc |-> pc]

Settle(pc, op) ==
  CASE op = "createOffer" -> CreateOffer(pc)
    [] op = "setLocalOffer" -> SetLocalOffer(pc)
    [] op = "setRemoteOffer" -> SetRemoteOffer(pc)
    [] op = "createAnswer" -> CreateAnswer(pc)
    [] op = "setLocalAnswer" -> SetLocalAnswer(pc)
    [] op = "setRemoteAnswer" -> SetRemoteAnswer(pc)

\* The operation a handler issues when the one it awaited is fulfilled.
NextOp(op) ==
  CASE op = "createOffer" -> "setLocalOffer"
    [] op = "setRemoteOffer" -> "createAnswer"
    [] op = "createAnswer" -> "setLocalAnswer"
    [] OTHER -> "done"

\* The message a handler sends once its last operation is fulfilled.
Reply(op, g) ==
  CASE op = "setLocalOffer" -> Send(Msg("offer", g))
    [] op = "setLocalAnswer" -> Send(Msg("answer", g))
    [] OTHER -> {}

Step == Ev("step", NoTag, NoTag, {})

\* A catch block that answers the error of a reconnect attempt with the next
\* attempt.
CaughtRetries(R, T, g, t) ==
  IF t.kind = "reconnectAll"
    THEN [reg |-> ReconnectNext(R, t.rest), timers |-> T]
  ELSE IF t.kind = "reconnect" THEN AttemptReconnect(R, T, g)
  ELSE [reg |-> R, timers |-> T]

\* A catch block that closes every link.
CaughtClosesAll(R, T, g, t) == [reg |-> CloseAllConnections(R), timers |-> T]

\* The catch block of the handler whose task t on the link of g was rejected:
\* the error is logged.  The loop of reconnectAllPeers goes on to its next
\* gamertag; handleSignaling and attemptReconnect end.
Caught(R, T, g, t) ==
  IF t.kind = "reconnectAll"
    THEN [reg |-> ReconnectNext(R, t.rest), timers |-> T]
    ELSE [reg |-> R, timers |-> T]

\* The operation at the head of the queue of the link of g settles, fulfilled
\* or rejected (fail: with a transport error), and the handler awaiting it
\* runs on to its next await.
OpSettle(g, fail) ==
  /\ g \in DOMAIN peerConnections
  /\ peerConnections[g].ops # << >>
  /\ LET pc == peerConnections[g]
         t == Head(pc.ops)
         rest == [pc EXCEPT !.ops = Tail(@)]
         r == Settle(rest, t.op)
         ok == ~fail /\ r.ok
         R0 == [Reg EXCEPT !.pcs[g] = IF ok THEN r.pc ELSE rest]
     IN  IF ok /\ NextOp(t.op) # "done"
           THEN Commit(ws, PM, Issue(R0, g, [t EXCEPT !.op = NextOp(t.op)]), timers, Step, {})
         ELSE IF ok
           THEN IF t.kind = "reconnectAll"
                  THEN Commit(ws, PM, R0,
                              Append(timers,
                                     Timer("reconnectAll", SpacingDelay, NoTag, 0, t.rest)),
                              Step, Reply(t.op, g))
                  ELSE Commit(ws, PM, R0, timers, Step, Reply(t.op, g))
         ELSE LET X == Caught(R0, timers, g, t)
              IN  Commit(ws, PM, X.reg, X.timers, Step, {})

RemoveAt(s, i) == [j \in 1..(Len(s) - 1) |-> IF j < i THEN s[j] ELSE s[j + 1]]

\* A delay ends: a timer fires once every timer started before it with a
\* delay that is no longer has fired.
TimerFire(i) ==
  /\ i \in DOMAIN timers
  /\ \A j \in 1..(i - 1) : timers[j].delay > timers[i].delay
  /\ LET t == timers[i]
         T == RemoveAt(timers, i)
     IN  IF t.kind = "reconnect"
           THEN Commit(ws, PM, ResumeReconnect(Reg, t), T, Step, {})
         ELSE IF t.kind = "reconnectAll"
           THEN Commit(ws, PM, ReconnectNext(Reg, t.rest), T, Step, {})
         ELSE IF minecraft.isPlayerInGame
           THEN LET W == ProcessUpdate(minecraft, audioEffects, PM, Reg)
                IN  CommitAll(ws, W.pm, Reg, T,
                              [App EXCEPT !.audioEffects = W.fx, !.minecraft = W.mc],
                              Step, W.out)
         ELSE Commit(ws, PM, Reg, T, Step, {})

----------------------------------------------------------------------------
(* Effects, time and the push-to-talk control *)

\* The reverb of the i-th suspended applyEffect is ready: the task runs to
\* its end with the registry as it is by then.
EffectReady(i) ==
  /\ i \in DOMAIN audioEffects.building
  /\ LET b == audioEffects.building[i]
         X == FinishEffect([audioEffects EXCEPT !.building = RemoveAt(@, i)],
                           b.effect, b.withLinks, Reg)
     IN  CommitAll(ws, PM, Reg, timers, [App EXCEPT !.audioEffects = X.fx],
                   Ev("effectready", NoTag, b.effect, {}), X.out)

Older(age) == IF age + Quantum > EffectThrottleMs THEN EffectThrottleMs ELSE age + Quantum

\* Quantum milliseconds pass between two turns of the event loop: Date.now()
\* moves away from both lastEffectChange fields.
Tick ==
  /\ ev = NoEvent
  /\ audioEffects' = [audioEffects EXCEPT !.sinceChange = Older(@)]
  /\ minecraft' = [minecraft EXCEPT !.sinceEffect = Older(@)]
  /\ UNCHANGED <<ws, participants, pendingNodes, peerConnections, peerOrder, timers, watch,
                 ev, out, taken, released, heartbeatInterval, pttEnabled, feed,
                 isKeyPressed, senders, trackEnabled, replaced, left>>

\* PushToTalkManager.muteAllSenders (enabled FALSE) and unmuteAllSenders
\* (enabled TRUE): the flag is set on the track of the audio sender of every
\* registered link.
SetSenders(S, TE, enabled) ==
  [s \in DOMAIN TE |-> IF \E g \in DOMAIN S : S[g] = s THEN enabled ELSE TE[s]]

PttStatus == Msg("ptt-status", NoTag)

\* The "Effect applied" line applyEffect logs before it returns.
Applied == Msg("Effect applied", NoTag)

\* The change handler of the push-to-talk toggle: PushToTalkManager.setEnabled.
\* Switched on, the key counts as released and the senders are muted;
\* switched off, the senders are unmuted.  notifyTalkingChange sends the
\* ptt-status through an open socket.
SetPushToTalk(enabled) ==
  /\ enabled \in BOOLEAN
  /\ CommitAll(ws, PM, Reg, timers,
               [App EXCEPT !.pttEnabled = enabled,
                           !.isKeyPressed = IF enabled THEN FALSE ELSE @,
                           !.trackEnabled = SetSenders(senders, @, ~enabled)],
               Ev("ptt", NoTag, IF enabled THEN "on" ELSE "off", {}), Send(PttStatus))

\* PushToTalkManager.handleKeyDown on the talk key
HandleKeyDown ==
  /\ pttEnabled /\ ~isKeyPressed
  /\ CommitAll(ws, PM, Reg, timers,
               [App EXCEPT !.isKeyPressed = TRUE,
                           !.trackEnabled = SetSenders(senders, @, TRUE)],
               Ev("keydown", NoTag, NoTag, {}), Send(PttStatus))

KeyUp == Ev("keyup", NoTag, NoTag, {})

\* PushToTalkManager.handleKeyUp on the talk key
HandleKeyUp ==
  /\ pttEnabled /\ isKeyPressed
  /\ CommitAll(ws, PM, Reg, timers,
               [App EXCEPT !.isKeyPressed = FALSE,
                           !.trackEnabled = SetSenders(senders, @, FALSE)],
               KeyUp, Send(PttStatus))

\* await Promise.all(updatePromises): the i-th task returns when none of its
\* replacements is outstanding.
After(FX, i) ==
  IF FX.replacing[i].pending = {} THEN [FX EXCEPT !.replacing = RemoveAt(@, i)] ELSE FX

\* The replaceTrack of the i-th applyEffect task on the link of g settles,
\* fulfilled or rejected; the replacements of one sender settle in the order
\* they were called.  Fulfilled, the sender carries the new track.  Each
\* promise has its own catch, so a rejection is logged and Promise.all goes
\* on waiting for the others; after the last one applyEffect returns.
ReplaceSettle(i, g, fail) ==
  /\ i \in DOMAIN audioEffects.replacing
  /\ g \in audioEffects.replacing[i].pending
  /\ \A j \in 1..(i - 1) : g \notin audioEffects.replacing[j].pending
  /\ LET t == audioEffects.replacing[i]
         FX == [audioEffects EXCEPT !.replacing[i].pending = @ \ {g}]
     IN  CommitAll(ws, PM, Reg, timers,
                   [App EXCEPT !.audioEffects = After(FX, i),
                               !.senders = IF fail THEN @ ELSE [@ EXCEPT ![g] = t.track]],
                   Ev("replaced", g, IF fail THEN "rejected" ELSE "fulfilled", {}),
                   IF After(FX, i).replacing # FX.replacing /\ ~t.stuck
                     THEN {Applied} ELSE {})

----------------------------------------------------------------------------

\* The steps of a session whose room holds the remote gamertags `room`.
NextIn(room) ==
  \/ ConnectToRoom
  \/ OnWebSocketOpen
  \/ ExitCall
  \/ OnHeartbeatInterval
  \/ \E data \in Messages(room) : OnWebSocketMessage(data)
  \/ \E g \in room : OnNegotiationNeeded(g)
  \/ \E g \in room, state \in ConnectionStates : OnConnectionStateChange(g, state)
  \/ \E g \in room, state \in IceConnectionStates : OnIceConnectionStateChange(g, state)
  \/ \E g \in room : OnTrack(g)
  \/ \E g \in room : OnIceCandidate(g)
  \/ \E g \in room, fail \in BOOLEAN : OpSettle(g, fail)
  \/ \E i \in 1..MaxTasks : TimerFire(i)
  \/ Forget

\* A session with one remote gamertag in the room.
Next == NextIn({"Steve"})

\* The messages of a room with the remote gamertag Steve that bring a link
\* with Steve about: its join and its answer to the offer.
WorldMessages ==
  {Ev("join", "Steve", NoTag, {}), Ev("answer", "Steve", Self, {})}

\* The steps of a session with Steve whose server sends the minecraft-update
\* messages of the feed: the link with Steve is set up and carries a track,
\* the snapshots arrive, time passes, reverbs get ready, push-to-talk is
\* switched.  Transport failures and departures are left to NextIn.
NextWorld ==
  \/ ConnectToRoom
  \/ OnWebSocketOpen
  \/ ExitCall
  \/ \E data \in WorldMessages \cup feed : OnWebSocketMessage(data)
  \/ OpSettle("Steve", FALSE)
  \/ OnConnectionStateChange("Steve", "connected")
  \/ OnTrack("Steve")
  \/ \E i \in 1..MaxTasks : TimerFire(i)
  \/ \E i \in 1..MaxTasks : EffectReady(i)
  \/ Tick
  \/ \E enabled \in BOOLEAN : SetPushToTalk(enabled)
  \/ Forget

\* The session with no event under observation.
Init == InitWatching({})

Spec == Init /\ [][Next]_vars

TypeOK ==
  /\ ws \in {"null", "connecting", "open"}
  /\ DOMAIN participants \subseteq Names
  /\ DOMAIN pendingNodes \subseteq Names
  /\ \A g \in DOMAIN pendingNodes : pendingNodes[g] \in Range(AudioElements)
  /\ \A g \in DOMAIN participants :
       participants[g].audioElement \in Range(AudioElements) \cup {"null"}
  /\ DOMAIN peerConnections \subseteq Names \ {Self}
  /\ Range(peerOrder) = DOMAIN peerConnections
  /\ Len(peerOrder) = Cardinality(DOMAIN peerConnections)
  /\ InFlight(Reg, timers) <= MaxTasks
  /\ taken \subseteq Names
  /\ \A g \in DOMAIN peerConnections :
       /\ peerConnections[g].signalingState \in SignalingStates
       /\ peerConnections[g].connectionState \in ConnectionStates

----------------------------------------------------------------------------
(* Negotiation operations per link *)

\* C1: on the link of every remote gamertag at most one negotiation operation
\* (offer or answer creation, local or remote description application) is
\* outstanding at any time.
OneNegotiationPerLink ==
  \A g \in DOMAIN peerConnections : Len(peerConnections[g].ops) <= 1

----------------------------------------------------------------------------
(* Reconnection after a failed connection *)

FailedEvents == {Ev("connectionstatechange", g, "failed", {}) : g \in Remotes}

\* The session observed at the Failed connection-state events.
SpecFailed == InitWatching(FailedEvents) /\ [][Next]_vars

AttemptsInRange ==
  \A g \in DOMAIN peerConnections :
    peerConnections[g].reconnectAttempts \in 0..MaxReconnectAttempts

\* C2: a Failed event on a link that has counted n < 3 attempts starts attempt
\* n + 1 (the link is closed and the attempt waits its delay, and the link made
\* after the delay carries the count n + 1); a Failed event on a link that has
\* counted 3 closes nothing, creates no link and sends nothing; and the count
\* of every link is within 0..3.
ReconnectAttemptsNumbered ==
  [][/\ AttemptsInRange /\ AttemptsInRange'
     /\ \A g \in Remotes :
          ev' = Ev("connectionstatechange", g, "failed", {}) =>
            LET n == peerConnections[g].reconnectAttempts
            IN  IF n < MaxReconnectAttempts
                  THEN /\ g \notin DOMAIN peerConnections'
                       /\ timers' = Append(timers, Timer("reconnect", ReconnectDelay, g, n + 1, << >>))
                  ELSE /\ DOMAIN peerConnections' = DOMAIN peerConnections
                       /\ \A h \in DOMAIN peerConnections :
                            peerConnections'[h].ops = peerConnections[h].ops
                       /\ peerOrder' = peerOrder
                       /\ timers' = timers
                       /\ out' = {}
     /\ \A i \in DOMAIN timers :
          (timers[i].kind = "reconnect" /\ timers' = RemoveAt(timers, i)) =>
            /\ timers[i].g \in DOMAIN peerConnections'
            /\ peerConnections'[timers[i].g].reconnectAttempts = timers[i].attempts
    ]_vars

\* A fourth Failed event has arrived on a link that counted three attempts, and
\* the link stands as it was.
FourthFailureSeen ==
  /\ ev \in FailedEvents
  /\ ev.g \in DOMAIN peerConnections
  /\ peerConnections[ev.g].reconnectAttempts = MaxReconnectAttempts
  /\ peerConnections[ev.g].connectionState = "failed"

\* C3: when reconnect is invoked with the count already at 3 the peer is
\* abandoned: afterwards the registry holds no link for it and no retry is started.
ExhaustedLinkAbsent ==
  [][\A g \in Remotes :
       (/\ ev' = Ev("connectionstatechange", g, "failed", {})
        /\ peerConnections[g].reconnectAttempts = MaxReconnectAttempts)
       => (g \notin DOMAIN peerConnections' /\ timers' = timers)
    ]_vars

\* A link whose reconnect attempts are used up: it counted three and failed again.
Exhausted(pc) ==
  pc.reconnectAttempts = MaxReconnectAttempts /\ pc.connectionState = "failed"

JoinEvents == {Ev("join", g, NoTag, {}) : g \in Remotes}

\* The session observed at the joins of remote gamertags.
SpecJoin == InitWatching(JoinEvents) /\ [][Next]_vars

\* C4: a peer whose reconnect attempts are exhausted is healed when it joins
\* again: the join leaves a fresh link for it (initial negotiation, no attempt
\* counted) from which an offer is requested.
RejoinHealsExhausted ==
  [][\A g \in Remotes :
       (/\ ev' = Ev("join", g, NoTag, {})
        /\ g \in DOMAIN peerConnections
        /\ Exhausted(peerConnections[g]))
       => /\ g \in DOMAIN peerConnections'
          /\ peerConnections'[g].isInitialConnection
          /\ peerConnections'[g].reconnectAttempts = 0
          /\ peerConnections'[g].connectionState = "new"
          /\ \E i \in DOMAIN peerConnections'[g].ops :
               peerConnections'[g].ops[i].op = "createOffer"
    ]_vars

----------------------------------------------------------------------------
(* Renegotiation *)

NegotiationEvents == {Ev("negotiationneeded", g, NoTag, {}) : g \in Remotes}

\* The session observed at the negotiation-needed callbacks.
SpecNegotiation == InitWatching(NegotiationEvents) /\ [][Next]_vars

\* The step leaves the registries, the suspended handlers and the socket as
\* they are and sends nothing.
NothingDone ==
  /\ UNCHANGED <<ws, participants, pendingNodes, peerConnections, peerOrder, timers>>
  /\ out' = {}

\* C5: a negotiation-needed callback on a link whose initial negotiation is in
\* progress requests no offer, applies no description and sends no message, in
\* every signaling state.
InitialNegotiationIgnored ==
  [][\A g \in Remotes :
       (/\ ev' = Ev("negotiationneeded", g, NoTag, {})
        /\ peerConnections[g].isInitialConnection)
       => NothingDone
    ]_vars

\* The callback has been ignored on a link in initial negotiation that has a
\* local offer outstanding.
IgnoredDuringInitialOffer ==
  /\ ev \in NegotiationEvents
  /\ peerConnections[ev.g].isInitialConnection
  /\ peerConnections[ev.g].signalingState = "have-local-offer"

\* C6: past the initial negotiation, a negotiation-needed callback requests an
\* offer exactly when the signaling state is stable; in another state the
\* request is skipped and nothing is kept of it (no handler stays suspended
\* that could send the offer later).
RenegotiationOnlyWhenStable ==
  [][\A g \in Remotes :
       (/\ ev' = Ev("negotiationneeded", g, NoTag, {})
        /\ ~peerConnections[g].isInitialConnection)
       => IF peerConnections[g].signalingState = "stable"
            THEN /\ peerConnections' =
                      [peerConnections EXCEPT
                         ![g].ops = Append(@, Task("negotiationneeded", "createOffer", << >>))]
                 /\ UNCHANGED <<participants, pendingNodes, peerOrder, timers>>
                 /\ out' = {}
            ELSE NothingDone
    ]_vars

\* The callback has been skipped on an established link that holds a remote offer.
SkippedDuringRemoteOffer ==
  /\ ev \in NegotiationEvents
  /\ ~peerConnections[ev.g].isInitialConnection
  /\ peerConnections[ev.g].signalingState = "have-remote-offer"
  /\ \A i \in DOMAIN peerConnections[ev.g].ops :
       peerConnections[ev.g].ops[i].kind # "negotiationneeded"

----------------------------------------------------------------------------
(* Inbound offers and answers *)

OfferEvents == {Ev("offer", g, Self, {}) : g \in Remotes}

\* The session observed at the offers addressed to the local gamertag and at
\* the steps of the suspended handlers.
SpecOffer == InitWatching(OfferEvents \cup {Step}) /\ [][Next]_vars

\* C7: an offer addressed to the local gamertag is accepted (its application
\* as remote description is requested from the link of its sender, made if
\* there was none) exactly when that link is stable or has a local offer
\* outstanding; otherwise it is dropped.  An answer is sent only to the sender
\* of an accepted offer, and it is sent when the answer of that offer has been
\* applied to its link.
OfferAcceptedWhenStableOrLocal ==
  [][/\ \A g \in Remotes :
          ev' = Ev("offer", g, Self, {}) =>
            LET R == CreatePeerConnection(Reg, g)
            IN  /\ out' = {}
                /\ timers' = timers
                /\ peerOrder' = R.order
                /\ IF R.pcs[g].signalingState \in {"stable", "have-local-offer"}
                     THEN peerConnections' =
                            [R.pcs EXCEPT ![g].ops = Append(@, Task("offer", "setRemoteOffer", << >>))]
                     ELSE peerConnections' = R.pcs
     /\ \A m \in out' :
          m.type = "answer" =>
            /\ ev' = Step
            /\ m.to \in DOMAIN peerConnections
            /\ Head(peerConnections[m.to].ops) = Task("offer", "setLocalAnswer", << >>)
            /\ peerConnections[m.to].signalingState = "have-remote-offer"
            /\ peerConnections'[m.to].signalingState = "stable"
     /\ \A g \in Remotes :
          (/\ ev' = Step
           /\ ws = "open"
           /\ g \in DOMAIN peerConnections
           /\ g \in DOMAIN peerConnections'
           /\ peerConnections[g].ops # << >>
           /\ peerConnections[g].signalingState = "have-remote-offer"
           /\ peerConnections'[g].signalingState = "stable")
          => /\ Head(peerConnections[g].ops) = Task("offer", "setLocalAnswer", << >>)
             /\ out' = {Msg("answer", g)}
    ]_vars

\* An offer has been accepted on a link that has a local offer outstanding.
AcceptedDuringLocalOffer ==
  /\ ev \in OfferEvents
  /\ peerConnections[ev.g].signalingState = "have-local-offer"
  /\ \E i \in DOMAIN peerConnections[ev.g].ops :
       peerConnections[ev.g].ops[i] = Task("offer", "setRemoteOffer", << >>)

AnswerEvents == {Ev("answer", g, Self, {}) : g \in Remotes}

\* The session observed at the answers addressed to the local gamertag.
SpecAnswer == InitWatching(AnswerEvents) /\ [][Next]_vars

\* C8: an answer addressed to the local gamertag is applied only when its
\* sender has a link and that link has a local offer outstanding; otherwise it
\* is dropped: no link changes and nothing is sent.
AnswerOnlyInHaveLocalOffer ==
  [][\A g \in Remotes :
       ev' = Ev("answer", g, Self, {}) =>
         IF g \in DOMAIN peerConnections
              /\ peerConnections[g].signalingState = "have-local-offer"
           THEN /\ peerConnections' =
                     [peerConnections EXCEPT
                        ![g].ops = Append(@, Task("answer", "setRemoteAnswer", << >>))]
                /\ out' = {}
           ELSE NothingDone
    ]_vars

\* An answer has been dropped on a link that holds a remote offer.
AnswerDroppedDuringRemoteOffer ==
  /\ ev \in AnswerEvents
  /\ ev.g \in DOMAIN peerConnections
  /\ peerConnections[ev.g].signalingState = "have-remote-offer"
  /\ \A i \in DOMAIN peerConnections[ev.g].ops :
       peerConnections[ev.g].ops[i].kind # "answer"

----------------------------------------------------------------------------
(* Routing *)

ForeignEvents ==
  UNION {{Ev(type, g, to, {}) :
            type \in {"offer", "answer", "ice-candidate"}, to \in Gamertags \ {Self, g}} :
         g \in Remotes}

\* The session observed at the messages addressed to another gamertag.
SpecForeign == InitWatching(ForeignEvents) /\ [][Next]_vars

\* C9: a message whose to field is not the local gamertag changes no
\* participant, no pending node and no link, and nothing is sent for it.
ForeignMessagesDiscarded ==
  [][ev' \in ForeignEvents => NothingDone]_vars

\* An offer for another gamertag has been discarded although its sender is
\* neither a participant nor linked.
ForeignOfferFromStranger ==
  /\ ev \in ForeignEvents
  /\ ev.type = "offer"
  /\ ws = "open"
  /\ ev.g \notin DOMAIN participants
  /\ ev.g \notin DOMAIN peerConnections

SelfJoin == Ev("join", Self, NoTag, {})

\* The session observed at the joins that carry the local gamertag.
SpecSelfJoin == InitWatching({SelfJoin}) /\ [][Next]_vars

\* C10: a join that carries the local gamertag adds no participant, creates no
\* link and requests no offer.
SelfJoinDiscarded ==
  [][ev' = SelfJoin => NothingDone]_vars

\* A join of the local gamertag has been discarded while the local gamertag
\* was no participant and had no link.
SelfJoinWhileAbsent ==
  /\ ev = SelfJoin
  /\ ws = "open"
  /\ Self \notin DOMAIN participants
  /\ Self \notin DOMAIN peerConnections

----------------------------------------------------------------------------
(* The registry of links *)

\* The registry lists every gamertag once.
OneLinkPerGamertag ==
  /\ Range(peerOrder) = DOMAIN peerConnections
  /\ \A i, j \in DOMAIN peerOrder : peerOrder[i] = peerOrder[j] => i = j

\* C11: createPeerConnection, as the handler of an inbound offer calls it,
\* returns the registered link of the gamertag as it is (its flags, its
\* attempt count and its place in the registry untouched) or, when there is
\* none, registers one new link in initial negotiation with no attempt
\* counted; the other links are left alone and the registry never lists a
\* gamertag twice.
CreateLinkIdempotent ==
  [][/\ OneLinkPerGamertag
     /\ OneLinkPerGamertag'
     /\ \A g \in Remotes :
          ev' = Ev("offer", g, Self, {}) =>
            /\ DOMAIN peerConnections' = DOMAIN peerConnections \cup {g}
            /\ \A h \in DOMAIN peerConnections \ {g} : peerConnections'[h] = peerConnections[h]
            /\ IF g \in DOMAIN peerConnections
                 THEN /\ peerOrder' = peerOrder
                      /\ peerConnections'[g].isInitialConnection =
                           peerConnections[g].isInitialConnection
                      /\ peerConnections'[g].reconnectAttempts =
                           peerConnections[g].reconnectAttempts
                      /\ peerConnections'[g].signalingState = peerConnections[g].signalingState
                      /\ peerConnections'[g].connectionState = peerConnections[g].connectionState
                      /\ SubSeq(peerConnections'[g].ops, 1, Len(peerConnections[g].ops)) =
                           peerConnections[g].ops
                 ELSE /\ peerOrder' = Append(peerOrder, g)
                      /\ peerConnections'[g].isInitialConnection
                      /\ peerConnections'[g].reconnectAttempts = 0
                      /\ peerConnections'[g].connectionState = "new"
    ]_vars

\* An offer has been handled on a link that was registered before it: the
\* link is past its initial negotiation and has counted an attempt.
OfferOnEstablishedLink ==
  /\ ev \in OfferEvents
  /\ ~peerConnections[ev.g].isInitialConnection
  /\ peerConnections[ev.g].reconnectAttempts > 0

----------------------------------------------------------------------------
(* Connection-state events *)

ConnectedEvents == {Ev("connectionstatechange", g, "connected", {}) : g \in Remotes}

\* The session observed at the connected and failed events of the links.
SpecConnected == InitWatching(ConnectedEvents \cup FailedEvents) /\ [][Next]_vars

\* C12: a connected event leaves its link registered, past initial
\* negotiation and with no attempt counted, and changes nothing else; a failed
\* event on the link as the connected event left it starts attempt 1.
ConnectedResetsLink ==
  [][\A g \in Remotes :
       /\ ev' = Ev("connectionstatechange", g, "connected", {}) =>
            /\ peerConnections' =
                 [peerConnections EXCEPT ![g].connectionState = "connected",
                                         ![g].isInitialConnection = FALSE,
                                         ![g].reconnectAttempts = 0]
            /\ UNCHANGED <<participants, pendingNodes, peerOrder, timers>>
            /\ out' = {}
       /\ (/\ ev' = Ev("connectionstatechange", g, "failed", {})
           /\ peerConnections[g].connectionState = "connected"
           /\ peerConnections[g].reconnectAttempts = 0) =>
            /\ g \notin DOMAIN peerConnections'
            /\ timers' = Append(timers, Timer("reconnect", ReconnectDelay, g, 1, << >>))
    ]_vars

\* A connected event has been handled: its link is registered, past initial
\* negotiation and counts no attempt.
LinkEstablished ==
  /\ ev \in ConnectedEvents
  /\ ev.g \in DOMAIN peerConnections
  /\ peerConnections[ev.g].connectionState = "connected"
  /\ ~peerConnections[ev.g].isInitialConnection
  /\ peerConnections[ev.g].reconnectAttempts = 0

----------------------------------------------------------------------------
(* Reconnection of one link *)

\* C13: a reconnect attempt within the cap closes the link of its gamertag
\* and, when its delay has passed, registers a fresh link for the gamertag (in
\* initial negotiation, not yet negotiated) that carries the count of the
\* attempt, and requests one offer from it.
ReconnectRegistersFreshLink ==
  [][/\ \A g \in Remotes :
          (/\ ev' = Ev("connectionstatechange", g, "failed", {})
           /\ peerConnections[g].reconnectAttempts < MaxReconnectAttempts)
          => g \notin DOMAIN peerConnections'
     /\ \A i \in DOMAIN timers :
          (timers[i].kind = "reconnect" /\ timers' = RemoveAt(timers, i)) =>
            /\ timers[i].g \in DOMAIN peerConnections'
            /\ peerConnections'[timers[i].g] =
                 [NewPc EXCEPT !.reconnectAttempts = timers[i].attempts,
                               !.ops = <<Task("reconnect", "createOffer", << >>)>>]
    ]_vars

----------------------------------------------------------------------------
(* ICE failure *)

IceFailedEvents == {Ev("iceconnectionstatechange", g, "failed", {}) : g \in Remotes}

\* The session observed at the ICE failures of the links.
SpecIceFailed == InitWatching(IceFailedEvents) /\ [][Next]_vars

\* C14: when the ICE state of a link becomes failed the link is recovered in
\* place: it stays registered as it was, counts the attempts it counted, and
\* no reconnect of its gamertag is started.
IceFailureRecoversInPlace ==
  [][\A g \in Remotes :
       ev' = Ev("iceconnectionstatechange", g, "failed", {}) =>
         /\ g \in DOMAIN peerConnections'
         /\ peerConnections'[g].reconnectAttempts = peerConnections[g].reconnectAttempts
         /\ peerConnections'[g].isInitialConnection = peerConnections[g].isInitialConnection
         /\ peerOrder' = peerOrder
         /\ timers' = timers
    ]_vars

DisconnectedEvents == {Ev("connectionstatechange", g, "disconnected", {}) : g \in Remotes}

\* The session observed at the disconnected events of the links.
SpecDisconnected == InitWatching(DisconnectedEvents) /\ [][Next]_vars

\* C15: a disconnected event takes no action: its link stays registered with
\* its flags, its attempt count and its outstanding operations, no reconnect
\* is started and nothing is sent.
DisconnectedTakesNoAction ==
  [][\A g \in Remotes :
       ev' = Ev("connectionstatechange", g, "disconnected", {}) =>
         /\ peerConnections' = [peerConnections EXCEPT ![g].connectionState = "disconnected"]
         /\ UNCHANGED <<ws, participants, pendingNodes, peerOrder, timers>>
         /\ out' = {}
    ]_vars

\* A disconnected event has been handled on a link that was established.
EstablishedLinkDropped ==
  /\ ev \in DisconnectedEvents
  /\ ev.g \in DOMAIN peerConnections
  /\ peerConnections[ev.g].connectionState = "disconnected"
  /\ ~peerConnections[ev.g].isInitialConnection

----------------------------------------------------------------------------
(* Reconnection of every link *)

LeaveEvents == {Ev("leave", g, NoTag, {}) : g \in Gamertags}

\* The session observed at the leave messages.
SpecLeave == InitWatching(LeaveEvents) /\ [][Next]_vars

\* C16: reconnectAllPeers, started by a leave over the gamertags that stay
\* linked, closes every link and waits once; then, one gamertag after the
\* other, it registers a fresh link for the gamertag and requests the one
\* offer of that link, and goes on to the next gamertag after that offer.
ReconnectAllRebuildsLinks ==
  [][/\ \A g \in Gamertags :
          (ev' = Ev("leave", g, NoTag, {}) /\ Without(peerOrder, g) # << >>) =>
            /\ DOMAIN peerConnections' = {}
            /\ timers' = Append(timers, Timer("reconnectAll", SettleDelay, NoTag, 0,
                                              Without(peerOrder, g)))
     /\ \A i \in DOMAIN timers :
          (/\ timers[i].kind = "reconnectAll"
           /\ timers[i].rest # << >>
           /\ timers' = RemoveAt(timers, i)) =>
            LET g == Head(timers[i].rest)
            IN  /\ g \in DOMAIN peerConnections'
                /\ peerConnections'[g] =
                     [NewPc EXCEPT !.ops = <<Task("reconnectAll", "createOffer",
                                                  Tail(timers[i].rest))>>]
    ]_vars

----------------------------------------------------------------------------
(* Closed links *)

ExitEvent == Ev("exit", NoTag, NoTag, {})
CloseEvents == LeaveEvents \cup {ExitEvent}

\* The session observed at the leave messages and at the exits from the call.
SpecClose == InitWatching(CloseEvents) /\ [][Next]_vars

\* A callback of the link of g can run.
CallbackEnabled(g) ==
  \/ ENABLED OnNegotiationNeeded(g)
  \/ ENABLED OnTrack(g)
  \/ ENABLED OnIceCandidate(g)
  \/ \E state \in ConnectionStates : ENABLED OnConnectionStateChange(g, state)
  \/ \E state \in IceConnectionStates : ENABLED OnIceConnectionStateChange(g, state)
  \/ \E fail \in BOOLEAN : ENABLED OpSettle(g, fail)

\* C17: closePeerConnection(g), as the leave of g calls it, leaves no entry
\* for g in the registry, and closeAllConnections, as the exit from the call
\* and the reconnection of every link call it, leaves the registry empty; and for a gamertag whose link is
\* closed no callback of a link runs and no handler suspended on an operation
\* of a link resumes.
ClosedLinksAreGone ==
  [][/\ \A g \in Gamertags :
          ev' = Ev("leave", g, NoTag, {}) =>
            /\ g \notin DOMAIN peerConnections' /\ g \notin Range(peerOrder')
            /\ timers' # timers => DOMAIN peerConnections' = {} /\ peerOrder' = << >>
     /\ ev' = ExitEvent => DOMAIN peerConnections' = {} /\ peerOrder' = << >>
     /\ \A g \in Remotes : g \notin DOMAIN peerConnections => ~CallbackEnabled(g)
    ]_vars

\* A leave has closed every link: the link of Steve was registered, and the
\* reconnection of every link waits to rebuild it.
LeaveClosedEveryLink ==
  /\ ev \in LeaveEvents
  /\ DOMAIN peerConnections = {}
  /\ timers = <<Timer("reconnectAll", SettleDelay, NoTag, 0, <<"Steve">>)>>

----------------------------------------------------------------------------
(* Pending audio nodes *)

\* C18: when an audio element is pending for a gamertag that is no
\* participant, add(gamertag, false), as the join handler calls it, makes the
\* participant with exactly that element and leaves no pending entry for the
\* gamertag.
PendingNodeGoesToParticipant ==
  [][\A g \in Remotes :
       (/\ ev' = Ev("join", g, NoTag, {})
        /\ g \in DOMAIN pendingNodes
        /\ g \notin DOMAIN participants)
       => /\ g \in DOMAIN participants'
          /\ participants'[g] = Participant(FALSE, pendingNodes[g])
          /\ g \notin DOMAIN pendingNodes'
    ]_vars

\* A join has been handled that made Steve a participant out of the audio
\* element that was pending for him.
JoinTookPendingNode ==
  /\ ev = Ev("join", "Steve", NoTag, {})
  /\ taken = {"Steve"}
  /\ participants["Steve"].audioElement \in Range(AudioElements)
  /\ "Steve" \notin DOMAIN pendingNodes

TrackEvents == {Ev("track", g, NoTag, {}) : g \in Remotes}

SpecPending == InitWatching(JoinEvents \cup TrackEvents) /\ [][Next]_vars

\* C19: a track arriving for a gamertag that is no participant leaves exactly
\* one pending element for the gamertag, a new one that replaces the entry
\* the gamertag had, and touches no other entry; a participant created by a
\* join takes the pending element of its gamertag, whose entry is then gone,
\* and holds no element when there is no entry, so that a pending element
\* goes to at most one participant.
PendingNodeReplacedAndConsumedOnce ==
  [][\A g \in Remotes :
       /\ (ev' = Ev("track", g, NoTag, {}) /\ g \notin DOMAIN participants)
          => /\ DOMAIN pendingNodes' = DOMAIN pendingNodes \cup {g}
             /\ g \in DOMAIN pendingNodes => pendingNodes'[g] # pendingNodes[g]
             /\ \A h \in DOMAIN pendingNodes \ {g} : pendingNodes'[h] = pendingNodes[h]
             /\ participants' = participants
       /\ (ev' = Ev("join", g, NoTag, {}) /\ g \notin DOMAIN participants)
          => /\ g \notin DOMAIN pendingNodes'
             /\ participants'[g].audioElement =
                  IF g \in DOMAIN pendingNodes THEN pendingNodes[g] ELSE "null"
             /\ taken' = {g} \cap DOMAIN pendingNodes
    ]_vars

\* A second track has arrived for Steve while he is no participant: the
\* first pending element has been replaced.
PendingNodeReplaced ==
  /\ ev = Ev("track", "Steve", NoTag, {})
  /\ "Steve" \notin DOMAIN participants
  /\ "Steve" \in DOMAIN pendingNodes
  /\ pendingNodes["Steve"] = AudioElements[2]

----------------------------------------------------------------------------
(* The audio element of a participant *)

SpecTrack == InitWatching(TrackEvents) /\ [][Next]_vars

\* C20: a track arriving for a participant that already holds an audio
\* element leaves that element in place.
AudioElementSetOnce ==
  [][\A g \in Remotes :
       (/\ ev' = Ev("track", g, NoTag, {})
        /\ g \in DOMAIN participants
        /\ participants[g].audioElement # "null")
       => participants'[g].audioElement = participants[g].audioElement
    ]_vars

----------------------------------------------------------------------------
(* The participant registry *)

\* C21: add(gamertag, false), as the join handler calls it, on a gamertag that
\* is a participant leaves every participant (flag, audio element, distance,
\* volume and custom multiplier) and the pending nodes as they are, and
\* releases nothing.
AddIsIdempotent ==
  [][\A g \in Remotes :
       (ev' = Ev("join", g, NoTag, {}) /\ g \in DOMAIN participants)
       => /\ participants' = participants
          /\ pendingNodes' = pendingNodes
          /\ taken' = {}
          /\ released' = {}
    ]_vars

\* A join of Steve has been handled while Steve was a participant whose
\* track had arrived: the participant holds an audio element that the join
\* did not take from the pending nodes.
JoinOfKnownParticipant ==
  /\ ev = Ev("join", "Steve", NoTag, {})
  /\ "Steve" \in DOMAIN participants
  /\ participants["Steve"].audioElement \in Range(AudioElements)
  /\ taken = {}

\* C23: remove(gamertag), as the leave handler calls it, releases the audio
\* element of the participant of the gamertag and deletes its entry, leaving
\* the other participants and the pending nodes alone; when the gamertag is
\* no participant the registry is unchanged and nothing is released.
RemoveReleasesAndDeletes ==
  [][\A g \in Gamertags :
       ev' = Ev("leave", g, NoTag, {})
       => /\ pendingNodes' = pendingNodes
          /\ IF g \in DOMAIN participants
               THEN /\ participants' = [h \in DOMAIN participants \ {g} |-> participants[h]]
                    /\ released' = IF participants[g].audioElement = "null"
                                     THEN {}
                                     ELSE {<<g, participants[g].audioElement>>}
               ELSE /\ participants' = participants
                    /\ released' = {}
    ]_vars

\* A leave of Steve has been handled that released the audio element his
\* participant held.
LeaveReleasedAudio ==
  /\ ev = Ev("leave", "Steve", NoTag, {})
  /\ "Steve" \notin DOMAIN participants
  /\ released \in {{<<"Steve", a>>} : a \in Range(AudioElements)}

SpecExit == InitWatching({ExitEvent}) /\ [][Next]_vars

\* C24: exitCall leaves no participant, no pending node and no link, releases
\* the audio element of every participant and clears the heartbeat interval;
\* no interval is set while there is no socket, and the callback that sends
\* the heartbeat runs only while an interval is set.
ExitTearsDown ==
  [][/\ ev' = ExitEvent
        => /\ participants' = NoParticipants
           /\ pendingNodes' = NoNodes
           /\ DOMAIN peerConnections' = {}
           /\ peerOrder' = << >>
           /\ released' = {<<g, participants[g].audioElement>> :
                             g \in {h \in DOMAIN participants :
                                      participants[h].audioElement # "null"}}
           /\ heartbeatInterval' = "null"
           /\ ws' = "null"
     /\ ws' = "null" => heartbeatInterval' = "null"
     /\ heartbeatInterval = "null" => ~ENABLED OnHeartbeatInterval
    ]_vars

\* exitCall has torn down a session in which a participant held an audio
\* element: the socket had opened and the heartbeat had been set.
ExitReleasedAudio ==
  /\ ev = ExitEvent
  /\ released # {}
  /\ heartbeatInterval = "null"
  /\ participants = NoParticipants

\* A session whose one remote gamertag is the local one in another case.
SpecVariant ==
  InitWatching({Ev("join", Variant, NoTag, {})}) /\ [][NextIn({Variant})]_vars

\* C22: no two participants have gamertags that differ in letter case only.
UniqueUpToCase ==
  \A g, h \in DOMAIN participants : ToLowerCase(g) = ToLowerCase(h) => g = h

----------------------------------------------------------------------------
(* World snapshots *)

\* The places of the snapshots: the local player stays at the origin and
\* Steve is at one of the places, named by its distance from the origin.
Origin == <<0, 0, 0>>
Place(distance) ==
  CASE distance = 0 -> <<0, 0, 0>>
    [] distance = 5 -> <<3, 4, 0>>
    [] distance = 10 -> <<6, 8, 0>>
    [] distance = 20 -> <<12, 16, 0>>
    [] distance = 25 -> <<15, 20, 0>>

\* The snapshot with the local player, deafened or not and in the
\* surroundings env, and Steve, muted or not, at a distance.
SnapshotOf(distance, steveMuted, selfDeafened, env) ==
  Snapshot(<<Player(Self, Origin, FALSE, selfDeafened, env),
             Player("Steve", Place(distance), steveMuted, FALSE, "none")>>, 0)

\* The participant of g is in the players of the snapshot, as the i-th.
Listed(data, g) == FindPlayer(data.players, g)

MutedFeed ==
  {MinecraftUpdate(SnapshotOf(d, m, deaf, "none"), << >>) :
     d \in {0, 10}, m \in BOOLEAN, deaf \in BOOLEAN}
  \cup {MinecraftUpdate(SnapshotOf(10, FALSE, FALSE, "cave"), << >>)}

SpecMuted == InitWith(MutedFeed, MutedFeed) /\ [][NextWorld]_vars

\* C26: after a snapshot that lists the local player is processed, every
\* participant other than the local one whose player is muted in the
\* snapshot has volume 0 and distance 0, wherever the players are and
\* whether or not the listener is deafened.
MutedIsSilent ==
  (ev.type = "minecraft-update" /\ Listed(ev.data, Self) # 0) =>
    \A g \in DOMAIN participants :
      (/\ ~participants[g].isSelf
       /\ Listed(ev.data, g) # 0
       /\ ev.data.players[Listed(ev.data, g)].isMuted)
        => participants[g].volume = Zero /\ participants[g].distance = 0

\* A snapshot with Steve muted, ten blocks from a listener who is not
\* deafened, has been processed with Steve a participant.
MutedFarProcessed ==
  /\ ev = MinecraftUpdate(SnapshotOf(10, TRUE, FALSE, "none"), << >>)
  /\ "Steve" \in DOMAIN participants
  /\ participants["Steve"].audioElement # "null"


\* The muteStates entry of the local gamertag.
MyState(isMuted, isDeafened) == <<MuteState(Self, isMuted, isDeafened)>>

DeafenFeed ==
  {MinecraftUpdate(SnapshotOf(10, FALSE, deaf, "none"), muteStates) :
     deaf \in BOOLEAN,
     muteStates \in {<< >>, MyState(FALSE, TRUE), MyState(TRUE, TRUE), MyState(FALSE, FALSE)}}
  \cup {MinecraftUpdate(SnapshotOf(10, FALSE, FALSE, "cave"), << >>)}

SpecDeafen == InitWith(DeafenFeed, DeafenFeed) /\ [][NextWorld]_vars

\* C27: once a minecraft-update is handled that leaves the listener deafened,
\* by the player data of its snapshot or by its muteStates entry, every
\* participant other than the local one has volume 0.
DeafenedHearsNothing ==
  (ev.type = "minecraft-update" /\ minecraft.remoteDeafened) =>
    \A g \in DOMAIN participants :
      ~participants[g].isSelf => participants[g].volume = Zero


MovesFeed ==
  {MinecraftUpdate(SnapshotOf(d, FALSE, FALSE, "none"), << >>) : d \in {0, 20, 25}}
  \cup {MinecraftUpdate(SnapshotOf(0, FALSE, FALSE, "cave"), << >>)}

SpecMoves == InitWith(MovesFeed, MovesFeed) /\ [][NextWorld]_vars

\* The place of Steve in the snapshot of a message of the feeds.
PlaceOfSteve(data) == data.data.players[2].location

\* C28: with the maximum distance 20, a snapshot with Steve at distance 0
\* gives the participant of Steve volume 1, and one with Steve at distance
\* 20 or 25 gives it volume 0; and the handling of a snapshot leaves the
\* registry of links as it is: no link is created, closed or removed, and
\* the signaling state, the flags and the attempt count of every link stay.
MovesSetVolumeOnly ==
  [][(ev = NoEvent /\ ev' \in MovesFeed) =>
       /\ minecraft'.maxDistance = 20
       /\ peerConnections' = peerConnections
       /\ peerOrder' = peerOrder
       /\ "Steve" \in DOMAIN participants' =>
            participants'["Steve"].volume =
              IF PlaceOfSteve(ev') = Place(0) THEN One ELSE Zero]_vars

\* The snapshot with Steve at distance 25 has been processed, after one that
\* had Steve at another distance, with the link of Steve connected.
MovedOutOfRange ==
  /\ ev \in MovesFeed
  /\ PlaceOfSteve(ev) = Place(25)
  /\ "Steve" \in DOMAIN participants
  /\ participants["Steve"].distance = 25
  /\ "Steve" \in DOMAIN peerConnections
  /\ peerConnections["Steve"].connectionState = "connected"


----------------------------------------------------------------------------
(* The distance calculator *)

\* The room as the server lists it: the participants-list message adds a
\* participant for Steve without a link.
RoomList == Ev("participants-list", NoTag, NoTag, {Self, "Steve"})

\* The snapshots that put Steve at each distance under each maximum distance:
\* the default of 20 (no config in the snapshot), 10 and 5.
CalculatorFeed ==
  {MinecraftUpdate(Snapshot(<<Player(Self, Origin, FALSE, FALSE, "none"),
                              Player("Steve", Place(d), FALSE, FALSE, "none")>>, M),
                   << >>) :
     d \in {0, 5, 10, 20, 25}, M \in {0, 5, 10}}

\* The steps that bring the calculator to work: the session opens, the room
\* is listed and the snapshots arrive.
NextCalculator ==
  \/ ConnectToRoom
  \/ OnWebSocketOpen
  \/ ExitCall
  \/ \E data \in {RoomList} \cup feed : OnWebSocketMessage(data)
  \/ Forget

SpecCalculator == InitWith(CalculatorFeed, CalculatorFeed) /\ [][NextCalculator]_vars

\* C25: volumeFromDistance(d, M) is 0 for d >= M and ((M - d) / M)^2 below M:
\* the volume a snapshot gives Steve at distance d is that value; under the
\* maximum distance in force the function is 1 at 0, strictly decreasing
\* below M and 0 from M on; and it is 1/4 at (10, 20) and 9/16 at (5, 20).
VolumeLaw ==
  LET M == minecraft.maxDistance
  IN  /\ (ev \in CalculatorFeed /\ "Steve" \in DOMAIN participants) =>
           LET d == Calculate(Origin, PlaceOfSteve(ev))
           IN  /\ participants["Steve"].distance = d
               /\ participants["Steve"].volume =
                    IF d >= M THEN Zero ELSE Frac((M - d) * (M - d), M * M)
      /\ M > 0
      /\ VolumeFromDistance(0, M) = One
      /\ \A d \in 0..(M + 5) :
           VolumeFromDistance(d, M) =
             IF d >= M THEN Zero ELSE Frac((M - d) * (M - d), M * M)
      /\ \A d1, d2 \in 0..(M - 1) :
           d1 < d2 => Less(VolumeFromDistance(d2, M), VolumeFromDistance(d1, M))
      /\ VolumeFromDistance(10, 20) = Frac(1, 4)
      /\ VolumeFromDistance(5, 20) = Frac(9, 16)

\* Steve has been heard at nine sixteenths: five blocks away under the
\* maximum distance 20.
HeardAtNineSixteenths ==
  /\ ev \in CalculatorFeed
  /\ minecraft.maxDistance = 20
  /\ "Steve" \in DOMAIN participants
  /\ participants["Steve"].distance = 5
  /\ participants["Steve"].volume = Frac(9, 16)


----------------------------------------------------------------------------
(* Effect changes *)

ConnectEvent == Ev("connect", NoTag, NoTag, {})

\* The snapshots with the local player in each of three surroundings, Steve
\* next to it.
EffectFeed ==
  {MinecraftUpdate(SnapshotOf(0, FALSE, FALSE, env), << >>) :
     env \in {"none", "underwater", "cave"}}

SpecEffects == InitWith(EffectFeed \cup {ConnectEvent}, EffectFeed) /\ [][NextWorld]_vars

\* The effects that the handler of event e asks applyEffect for, in the state
\* the handler finds: connectToRoom starts the microphone, which asks for
\* "none"; a minecraft-update asks for the effect of the local player's
\* surroundings when the interval of applyEnvironmentalEffects has passed and
\* the effect is not the current one.
Requests(e) ==
  IF e = ConnectEvent THEN {"none"}
  ELSE IF e \in EffectFeed
    THEN {e.data.players[i].env : i \in
            {j \in {Listed(e.data, Self)} \ {0} :
               /\ minecraft.sinceEffect >= EffectThrottleMs
               /\ e.data.players[j].env # audioEffects.currentEffect}}
  ELSE {}

ReplacedTracks(o) == {m \in o : m.type = "replaceTrack"}

\* C29: applyEffect for the current effect, with an output stream in
\* existence, does nothing: the stream, the current effect, the time of the
\* last change and the suspended changes stay, and no track is replaced.
SameEffectIsNoOp ==
  [][(/\ ev = NoEvent
      /\ ev' \in EffectFeed \cup {ConnectEvent}
      /\ Requests(ev') = {audioEffects.currentEffect}
      /\ audioEffects.processedStream # "null") =>
       audioEffects' = audioEffects /\ ReplacedTracks(out') = {}]_vars

\* connectToRoom has asked for "none", the current effect, a full interval
\* after the last change: an accepted request would have reset the age.
SameEffectAsked ==
  /\ ev = ConnectEvent
  /\ audioEffects.currentEffect = "none"
  /\ audioEffects.processedStream # "null"
  /\ audioEffects.sinceChange = EffectThrottleMs

\* A request has been accepted in the step: the time of the last change is
\* now, and a change is suspended on its reverb or has set a new stream.
Accepted ==
  \/ Len(audioEffects'.building) > Len(audioEffects.building)
  \/ /\ audioEffects'.building = audioEffects.building
     /\ audioEffects'.processedStream # audioEffects.processedStream

\* C30: a request is accepted only when EffectThrottleMs or more have passed
\* since the last accepted one; a request that comes sooner, with an output
\* stream in existence, is dropped: no stream is made, the current effect
\* stays, nothing is suspended and no track is replaced.
ChangesAreSpaced ==
  [][/\ Accepted => audioEffects.sinceChange >= EffectThrottleMs
     /\ (/\ ev = NoEvent
         /\ ev' \in EffectFeed \cup {ConnectEvent}
         /\ Requests(ev') # {}
         /\ audioEffects.processedStream # "null"
         /\ audioEffects.sinceChange < EffectThrottleMs) =>
          audioEffects' = audioEffects /\ ReplacedTracks(out') = {}]_vars

\* connectToRoom has asked for "none" while the cave effect was current and
\* less than the interval old, and the cave effect is still current.
EarlyRequestDropped ==
  /\ ev = ConnectEvent
  /\ audioEffects.currentEffect = "cave"
  /\ audioEffects.sinceChange < EffectThrottleMs


----------------------------------------------------------------------------
(* Participants and pending nodes *)

\* C40: no gamertag is a participant and a key of the pending nodes at once.
PendingOnlyWithoutParticipant == DOMAIN participants \cap DOMAIN pendingNodes = {}

\* The join of Steve has made a participant of the gamertag whose audio
\* element was pending, and the pending nodes are empty.
PendingHandedOver ==
  /\ taken = {"Steve"}
  /\ "Steve" \in DOMAIN participants
  /\ participants["Steve"].audioElement # "null"
  /\ DOMAIN pendingNodes = {}


\* The session observed at the leave that carries the local gamertag.
SelfLeave == Ev("leave", Self, NoTag, {})
SpecSelfLeave == InitWatching({SelfLeave}) /\ [][Next]_vars

\* C37: while the socket is open the local participant is in the registry,
\* and no message of the socket takes it out or starts the reconnection of
\* every link.
SelfStays ==
  [][(ws = "open" /\ ws' = "open") =>
       /\ Self \in DOMAIN participants'
       /\ ev' = SelfLeave => peerConnections' = peerConnections /\ timers' = timers]_vars


----------------------------------------------------------------------------
(* The muteStates of a minecraft-update *)

\* C39: the handling of a minecraft-update with a muteStates entry for the
\* local gamertag ends with remoteDeafened equal to the isDeafened of the
\* entry and remoteMuted equal to its isMuted, or true when the entry is
\* deafened, whatever the flags were and whether push-to-talk is on or off.
MuteStatesTaken ==
  (ev \in DeafenFeed /\ ev.muteStates # << >>) =>
    LET myState == ev.muteStates[1]
    IN  /\ minecraft.remoteDeafened = myState.isDeafened
        /\ minecraft.remoteMuted = (myState.isMuted \/ myState.isDeafened)


----------------------------------------------------------------------------
(* Suspended effect changes *)

\* C34: at most one accepted applyEffect is suspended at any time.
OneEffectInFlight == Len(audioEffects.building) <= 1


----------------------------------------------------------------------------
(* Errors inside a reconnect attempt *)

\* The session observed at the Failed events and at the settling of
\* operations.
SpecAttempt == InitWatching(FailedEvents \cup {Step}) /\ [][Next]_vars

\* C33: when an operation of a reconnect attempt settles and the attempt
\* ends, by an error or with its offer, no further attempt is started: the
\* link stays registered with the count of the attempt, no delay is started
\* and nothing else is requested from the link; after a rejected createOffer
\* the link is as it was and nothing is sent.  A Failed event on a link that
\* counted n attempts, 0 < n < 3, starts attempt n + 1.
ReconnectErrorAbandoned ==
  [][\A g \in Remotes :
       /\ (/\ ev = NoEvent /\ ev' = Step
           /\ g \in DOMAIN peerConnections
           /\ peerConnections[g].ops # << >>
           /\ Head(peerConnections[g].ops).kind = "reconnect"
           /\ \/ g \notin DOMAIN peerConnections'
              \/ Len(peerConnections'[g].ops) < Len(peerConnections[g].ops)) =>
            /\ g \in DOMAIN peerConnections'
            /\ peerConnections'[g].ops = Tail(peerConnections[g].ops)
            /\ peerConnections'[g].reconnectAttempts = peerConnections[g].reconnectAttempts
            /\ timers' = timers
            /\ Head(peerConnections[g].ops).op = "createOffer" =>
                 /\ peerConnections'[g] = [peerConnections[g] EXCEPT !.ops = Tail(@)]
                 /\ out' = {}
       /\ (/\ ev' = Ev("connectionstatechange", g, "failed", {})
           /\ peerConnections[g].reconnectAttempts \in 1..(MaxReconnectAttempts - 1)) =>
            /\ g \notin DOMAIN peerConnections'
            /\ timers' = Append(timers,
                                Timer("reconnect", ReconnectDelay, g,
                                      peerConnections[g].reconnectAttempts + 1, << >>))
    ]_vars

\* The createOffer of a reconnect attempt for Steve was rejected: the link of
\* the attempt is registered with its count, in the state it was created in,
\* with nothing requested from it and no delay running.
AttemptAbandoned ==
  /\ ev = Step
  /\ "Steve" \in DOMAIN peerConnections
  /\ peerConnections["Steve"].reconnectAttempts >= 1
  /\ peerConnections["Steve"].ops = << >>
  /\ peerConnections["Steve"].signalingState = "stable"
  /\ peerConnections["Steve"].connectionState = "new"
  /\ timers = << >>


----------------------------------------------------------------------------
(* Errors of the negotiation of one link among two *)

Pair == {"Steve", "Herobrine"}

\* The messages of a room with two remote gamertags that set links up and
\* take them down: the joins, the offers and answers to the local gamertag
\* and the leave of Steve.
PairMessages ==
  {Ev(type, g, NoTag, {}) : type \in {"join"}, g \in Pair}
  \cup {Ev(type, g, Self, {}) : type \in {"offer", "answer"}, g \in Pair}
  \cup {Ev("leave", "Steve", NoTag, {})}

\* The steps of a session with two remote gamertags, without the events of
\* established connections: the messages are handled, the operations settle,
\* fulfilled or rejected, and the delays end.
NextPair ==
  \/ ConnectToRoom
  \/ OnWebSocketOpen
  \/ ExitCall
  \/ \E data \in PairMessages : OnWebSocketMessage(data)
  \/ \E g \in Pair, fail \in BOOLEAN : OpSettle(g, fail)
  \/ \E i \in 1..MaxTasks : TimerFire(i)
  \/ Forget

SpecPair == InitWatching({Step}) /\ [][NextPair]_vars

\* The operation at the head of the queue of the link of g was rejected in
\* the step: the task that awaited it is gone from the queue and has not gone
\* on to its next operation, or, for the last operation of a task, has left
\* the signaling state as it was.
Rejected(g) ==
  /\ ev = NoEvent /\ ev' = Step
  /\ g \in DOMAIN peerConnections
  /\ peerConnections[g].ops # << >>
  /\ \/ g \notin DOMAIN peerConnections'
     \/ /\ Len(peerConnections'[g].ops) < Len(peerConnections[g].ops)
        /\ \/ NextOp(Head(peerConnections[g].ops).op) # "done"
           \/ /\ Head(peerConnections[g].ops).op \in {"setLocalAnswer", "setRemoteAnswer"}
              /\ peerConnections'[g].signalingState = peerConnections[g].signalingState

\* C32: when an operation of the negotiation of a link is rejected, the link
\* stays registered as it was before the operation, nothing is sent, and
\* every other registered link stays registered with its signaling state,
\* its connection state, its flag and its attempt count.
NegotiationErrorContained ==
  [][\A g \in Pair :
       Rejected(g) =>
         /\ g \in DOMAIN peerConnections'
         /\ peerConnections'[g] = [peerConnections[g] EXCEPT !.ops = Tail(@)]
         /\ out' = {}
         /\ \A h \in DOMAIN peerConnections \ {g} :
              /\ h \in DOMAIN peerConnections'
              /\ peerConnections'[h].signalingState = peerConnections[h].signalingState
              /\ peerConnections'[h].connectionState = peerConnections[h].connectionState
              /\ peerConnections'[h].isInitialConnection =
                   peerConnections[h].isInitialConnection
              /\ peerConnections'[h].reconnectAttempts = peerConnections[h].reconnectAttempts
    ]_vars


\* The offer of the link of Steve was rejected beside the link of Herobrine,
\* which has its local offer: the link of Steve is registered as it was
\* created, with nothing requested from it.
ErrorBesideOtherLink ==
  /\ ev = Step
  /\ DOMAIN peerConnections = Pair
  /\ peerConnections["Steve"].ops = << >>
  /\ peerConnections["Steve"].signalingState = "stable"
  /\ peerConnections["Steve"].connectionState = "new"
  /\ peerConnections["Herobrine"].signalingState = "have-local-offer"

----------------------------------------------------------------------------
(* Departures *)

SpecGone == InitWatching(LeaveEvents \cup {Departures}) /\ [][Next]_vars

\* C35: once the leave of a gamertag is handled and nothing is in flight any
\* more (no task waits on a delay or on an operation of a link), the
\* registry holds no link for it, unless it has sent a join or an offer since.
GoneStaysUnlinked ==
  (timers = << >> /\ \A g \in DOMAIN peerConnections : peerConnections[g].ops = << >>) =>
    left \cap DOMAIN peerConnections = {}

----------------------------------------------------------------------------
(* connectToRoom on a session that has a socket *)

ReplacedClose == Ev("close", NoTag, "replaced", {})

\* VoiceChatApp.connectToRoom while this.ws holds a socket: the links are
\* closed, close() is called on the socket, the microphone is started and a
\* new socket is created.  The participants and the heartbeat interval stay.
\* The close event of the replaced socket is due.
ReplaceSession ==
  /\ ws # "null"
  /\ LET R == CloseAllConnections(Reg)
         X == ApplyEffect(audioEffects, "none", FALSE, R)
     IN  CommitAll("connecting", PM, R, timers,
                   [App EXCEPT !.audioEffects = X.fx, !.replaced = @ + 1],
                   Ev("connect", NoTag, "replace", {}), X.out)

\* The close event of a replaced socket: its onclose handler, set by
\* connectToRoom, is `() => this.exitCall()`, and exitCall works on the
\* socket that this.ws holds by then.
OnReplacedClose ==
  /\ replaced > 0
  /\ CommitAll("null", Clear(PM), CloseAllConnections(Reg), timers,
               [App EXCEPT !.heartbeatInterval = StopHeartbeat(@), !.replaced = @ - 1],
               ReplacedClose, Send(Msg("leave", NoTag)))

NextReplace ==
  \/ NextIn({"Steve"})
  \/ ReplaceSession
  \/ OnReplacedClose

SpecReplace == InitWatching({ReplacedClose}) /\ [][NextReplace]_vars

\* C38: the close event of a socket that connectToRoom replaced leaves the
\* session of the new socket as it is: the socket, the participants, the
\* links and the heartbeat interval stay, and no leave is sent.
StaleCloseSparesSession ==
  [][(ev = NoEvent /\ ev' = ReplacedClose) =>
       /\ ws' = ws
       /\ participants' = participants
       /\ peerConnections' = peerConnections
       /\ heartbeatInterval' = heartbeatInterval
       /\ out' = {}]_vars

----------------------------------------------------------------------------
(* The outgoing audio: push-to-talk and track replacement *)

\* The snapshot with the local player under water.
TalkFeed == {MinecraftUpdate(SnapshotOf(0, FALSE, FALSE, "underwater"), << >>)}

\* The steps of a session with Steve in which the link is set up and
\* re-created after a failure, the surroundings of the local player change,
\* track replacements settle, and push-to-talk and its key are used.
NextTalk ==
  \/ ConnectToRoom
  \/ OnWebSocketOpen
  \/ ExitCall
  \/ \E data \in WorldMessages \cup feed : OnWebSocketMessage(data)
  \/ OpSettle("Steve", FALSE)
  \/ OnConnectionStateChange("Steve", "failed")
  \/ \E i \in 1..MaxTasks : TimerFire(i)
  \/ Tick
  \/ \E enabled \in BOOLEAN : SetPushToTalk(enabled)
  \/ HandleKeyDown
  \/ HandleKeyUp
  \/ \E i \in 1..MaxTasks, fail \in BOOLEAN : ReplaceSettle(i, "Steve", fail)
  \/ Forget

SpecTalk == InitWith({SenderTracks, KeyUp}, TalkFeed) /\ [][NextTalk]_vars

\* C36: while push-to-talk is on and the talk key is not pressed, the track
\* of the audio sender of every link is disabled.
SilentUnlessTalking ==
  (pttEnabled /\ ~isKeyPressed) =>
    \A g \in DOMAIN senders : senders[g] # "null" => ~trackEnabled[senders[g]]

\* The joins of Steve and Herobrine.
SwapMessages == {Ev("join", g, NoTag, {}) : g \in Pair}

SwapFeed == TalkFeed

Settled == {Ev("replaced", g, r, {}) : g \in Pair, r \in {"fulfilled", "rejected"}}

\* The steps of a session with Steve and Herobrine in which the links are set
\* up, the surroundings of the local player change and the track
\* replacements settle, fulfilled or rejected.
NextSwap ==
  \/ ConnectToRoom
  \/ OnWebSocketOpen
  \/ ExitCall
  \/ \E data \in SwapMessages \cup feed : OnWebSocketMessage(data)
  \/ \E g \in Pair : OpSettle(g, FALSE)
  \/ Tick
  \/ \E i \in 1..MaxTasks, g \in Pair, fail \in BOOLEAN : ReplaceSettle(i, g, fail)
  \/ Forget

SpecSwap ==
  InitWith({SenderTracks} \cup Settled \cup SwapFeed, SwapFeed) /\ [][NextSwap]_vars

\* The applyEffect task whose replaceTrack on the sender of g is the next to settle.
NextFor(g) ==
  CHOOSE i \in DOMAIN audioEffects.replacing :
    /\ g \in audioEffects.replacing[i].pending
    /\ \A j \in 1..(i - 1) : g \notin audioEffects.replacing[j].pending

\* C31: an effect change that is accepted and carried out calls replaceTrack
\* with the new track on the sender of every registered link and waits for
\* all of them.  When one of them settles, fulfilled or rejected, the others
\* of the task stay outstanding and the links stay as they are; a fulfilled
\* one puts the new track on its sender, a rejected one leaves the sender as
\* it is; and applyEffect reports the effect applied in the step in which the
\* last of its replacements settles, not before.
ReplacementPerLink ==
  [][/\ (/\ ev = NoEvent
         /\ ev' \in SwapFeed
         /\ audioEffects'.processedStream # audioEffects.processedStream
         /\ DOMAIN peerConnections # {}) =>
          /\ Len(audioEffects'.replacing) = Len(audioEffects.replacing) + 1
          /\ LET t == audioEffects'.replacing[Len(audioEffects'.replacing)]
             IN  /\ t.pending = DOMAIN peerConnections
                 /\ t.track = audioEffects'.processedStream
          /\ ReplacedTracks(out') = {Msg("replaceTrack", g) : g \in DOMAIN peerConnections}
          /\ Applied \notin out'
     /\ (ev = NoEvent /\ ev' \in Settled) =>
          LET g == ev'.g
              i == NextFor(g)
              t == audioEffects.replacing[i]
          IN  /\ senders' = IF ev'.arg = "fulfilled"
                              THEN [senders EXCEPT ![g] = t.track] ELSE senders
              /\ peerConnections' = peerConnections
              /\ Applied \in out' <=> (t.pending = {g} /\ ~t.stuck)
              /\ audioEffects'.replacing =
                   IF t.pending = {g}
                     THEN RemoveAt(audioEffects.replacing, i)
                     ELSE [audioEffects.replacing EXCEPT ![i].pending = @ \ {g}]]_vars

\* The replacement on the link of Herobrine has been fulfilled after the one
\* on the link of Steve was rejected: the sender of Herobrine carries the new
\* track, the sender of Steve the old one, and the effect is reported applied.
ReplacedBesideRejection ==
  /\ ev = Ev("replaced", "Herobrine", "fulfilled", {})
  /\ Applied \in out
  /\ DOMAIN senders = Pair
  /\ senders["Herobrine"] = audioEffects.processedStream
  /\ senders["Steve"] # audioEffects.processedStream

====
